---- MODULE Spec2Model ----
(***************************************************************************)
(* Account pool and request dispatch of the antigravity proxy.             *)
(*                                                                         *)
(* Account ids are the strings account-N; the model writes the id          *)
(* account-N as the integer N.  Time is Date.now() in milliseconds.        *)
(* An optional field that is undefined holds the value Undefined.          *)
(***************************************************************************)
EXTENDS Integers, Sequences, FiniteSets, TLC

VARIABLES
    now,                  \* Date.now()
    accountStatesMap,     \* AccountsService.accountStatesMap: id -> AccountState
    accountsList,         \* AccountsService.accountsList: ids in insertion order
    emailToIdMap,         \* AccountsService.emailToIdMap: email -> id
    currentIndex,         \* AccountsService.currentIndex
    quotaCache,           \* QuotaService.quotaCache: id -> (model name -> quota in 1/1000)
    maxRetryAccounts,     \* AntigravityService.maxRetryAccounts
    dispatch,             \* the request handlers in flight, one record per handler
    lastCall,             \* the direct call of an AccountsService method made by the last step, and its result
    cooldownsSinceSuccess,\* history: markCooldown calls per account since its last markSuccess
    started,              \* history: number of requests received
    ticks,                \* history: number of clock advances
    credentialState,      \* per credential: tokens, expiry and project id (0: AuthService, N: account-N)
    callers,              \* the calls of getAccessToken / getProjectId in flight
    currentBaseUrlIndex,  \* AntigravityService.currentBaseUrlIndex
    request,              \* the upstream request in flight: makeRequest / createStreamRequest
    baseUrlsLength,       \* BASE_URLS.length
    oaStream,             \* one OpenAI streaming response: accumulator, chunks read, records written
    anStream,             \* one Anthropic streaming response: accumulator, chunks read, events written
    sse,                  \* SSEStreamParser: its buffer, the bytes still to come, the payloads yielded
    guard,                \* ApiKeyGuard: the configured key, the last request and its outcome
    schemaIO              \* cleanSchemaForClaude: an input schema and the outputs computed from it

vars == <<now, accountStatesMap, accountsList, emailToIdMap, currentIndex,
          quotaCache, maxRetryAccounts, dispatch, lastCall,
          cooldownsSinceSuccess, started, ticks,
          credentialState, callers, currentBaseUrlIndex, request, baseUrlsLength,
          oaStream, anStream, sse, guard, schemaIO>>

authVars == <<credentialState, callers>>
transportVars == <<currentBaseUrlIndex, request, baseUrlsLength>>
ioVars == <<oaStream, anStream, sse, guard, schemaIO>>
serviceVars == <<now, accountStatesMap, accountsList, emailToIdMap, currentIndex, quotaCache,
                 maxRetryAccounts, dispatch, lastCall, cooldownsSinceSuccess, started, ticks,
                 credentialState, callers, currentBaseUrlIndex, request,
                 baseUrlsLength>>

-----------------------------------------------------------------------------
(* Bounds *)

MaxPoolAccounts == 2
MaxAccounts == 2
MaxConfigured == 2
MaxConsecutive == 8
MaxBackoffMarks == 9
MaxBackoffTicks == 1
MaxPoolConsecutive == 2
MaxPoolMarks == 2
MaxPoolTicks == 1
MaxTicks == 1
MaxDispatch == 2
MaxStarted == 2
MaxRetryConfig == 3
MaxChunks == 1
InitialNow == 1
MaxSelectMarks == 3
MaxSelectWaits == 2
MaxCallers == 2
MaxAuthCalls == 3
MaxAuthWaits == 1
MaxTransportCalls == 2
BaseUrlCount == 3
MaxBaseUrls == 4
MaxLiveConsecutive == 2
MaxLiveMarks == 3
MaxParts == 2
MaxStreamChunks == 2
MaxPieces == 4
MaxSchemaDepth == 2

(* Program constants *)

COOLDOWN_DURATION_MS == 60000
DEFAULT_RETRY_AFTER == 60
BACKOFF_CAP == 6
REFRESH_BUFFER_MS == 300000
EXPIRES_IN == 3600
Undefined == -1

Emails == {"e1", "e2", "e3"}
ModelNames == {"m1"}

Min(a, b) == IF a < b THEN a ELSE b

Truthy(x) == x # Undefined /\ x # 0

-----------------------------------------------------------------------------
(* AccountsService *)

NewState(email) ==
    [email |-> email, status |-> "ready", requestCount |-> 0, errorCount |-> 0,
     consecutiveErrors |-> 0, cooldownUntil |-> Undefined, lastUsed |-> Undefined]

\* loadAccounts: one account per configured credential, id account-(index+1);
\* a repeated email keeps both accounts and indexes the later one.
RECURSIVE LoadEmailIndex(_, _)
LoadEmailIndex(cfg, n) ==
    IF n = 0 THEN <<>>
    ELSE LET m == LoadEmailIndex(cfg, n - 1)
         IN  [e \in (DOMAIN m) \cup {cfg[n]} |-> IF e = cfg[n] THEN n ELSE m[e]]

LoadedMap(cfg) == [id \in 1..Len(cfg) |-> NewState(cfg[id])]
LoadedList(cfg) == [i \in 1..Len(cfg) |-> i]

hasAccounts(m) == Cardinality(DOMAIN m) > 0
getAccountCount(m) == Cardinality(DOMAIN m)

\* variant of Expired: the comparison is turned around
ExpiredBeforeDeadline(s, t) ==
    s.status = "cooldown" /\ Truthy(s.cooldownUntil) /\ s.cooldownUntil > t

\* getReadyAccounts, first half: the lazy expiry over accountsList
Expired(s, t) ==
    s.status = "cooldown" /\ Truthy(s.cooldownUntil) /\ s.cooldownUntil < t

ExpireCooldowns(m, t) ==
    [id \in DOMAIN m |->
        IF Expired(m[id], t)
        THEN [m[id] EXCEPT !.status = "ready", !.cooldownUntil = Undefined]
        ELSE m[id]]

\* variant of ReadyFilter: the filter drops only the accounts in error
ReadyFilterNotError(m, list) == SelectSeq(list, LAMBDA id : m[id].status # "error")

\* getReadyAccounts, second half: the filter, in list order
ReadyFilter(m, list) == SelectSeq(list, LAMBDA id : m[id].status = "ready")

\* the score of getNextAccount, times 10000 (so that 0.1 and ms/1000 stay integers)
QuotaEntry(q, id, modelName) ==
    IF modelName # "" /\ id \in DOMAIN q /\ modelName \in DOMAIN q[id]
    THEN q[id][modelName] ELSE Undefined

QUOTA_THRESHOLD == 10

\* variant of Score: a never-used account gets 3000 instead of 4000
ScoreLowNeverUsedBonus(s, id, modelName, q, t) ==
    LET entry == QuotaEntry(q, id, modelName)
        quotaPart == IF entry = Undefined THEN 0
                     ELSE entry * 10000
                          - (IF entry > QUOTA_THRESHOLD THEN 0 ELSE 5000 * 10000)
        usagePart == 0 - s.requestCount * 1000
        recencyPart == IF Truthy(s.lastUsed)
                       THEN Min((t - s.lastUsed) * 10, 3600 * 10000)
                       ELSE 3000 * 10000
    IN  quotaPart + usagePart + recencyPart

\* variant of Score: the request count is left out
ScoreWithoutUsage(s, id, modelName, q, t) ==
    LET entry == QuotaEntry(q, id, modelName)
        quotaPart == IF entry = Undefined THEN 0
                     ELSE entry * 10000
                          - (IF entry > QUOTA_THRESHOLD THEN 0 ELSE 5000 * 10000)
        recencyPart == IF Truthy(s.lastUsed)
                       THEN Min((t - s.lastUsed) * 10, 3600 * 10000)
                       ELSE 4000 * 10000
    IN  quotaPart + recencyPart

Score(s, id, modelName, q, t) ==
    LET entry == QuotaEntry(q, id, modelName)
        quotaPart == IF entry = Undefined THEN 0
                     ELSE entry * 10000
                          - (IF entry > QUOTA_THRESHOLD THEN 0 ELSE 5000 * 10000)
        usagePart == 0 - s.requestCount * 1000
        recencyPart == IF Truthy(s.lastUsed)
                       THEN Min((t - s.lastUsed) * 10, 3600 * 10000)
                       ELSE 4000 * 10000
    IN  quotaPart + usagePart + recencyPart

\* the first element of the stably, descendingly sorted list: the earliest maximum
RECURSIVE FirstMax(_, _, _, _, _)
FirstMax(ready, m, modelName, q, t) ==
    IF Len(ready) = 1 THEN ready[1]
    ELSE LET rest == FirstMax(Tail(ready), m, modelName, q, t)
             h == ready[1]
         IN  IF Score(m[h], h, modelName, q, t) >= Score(m[rest], rest, modelName, q, t)
             THEN h ELSE rest

IndexOf(list, id) ==
    IF \E i \in 1..Len(list) : list[i] = id
    THEN (CHOOSE i \in 1..Len(list) : list[i] = id /\ \A j \in 1..(i-1) : list[j] # id) - 1
    ELSE -1

\* getNextAccount: the selected id (Undefined for null) on the pool after lazy expiry
SelectNext(m, list, modelName, q, t) ==
    LET ready == ReadyFilter(ExpireCooldowns(m, t), list)
    IN  IF Len(ready) = 0 THEN Undefined
        ELSE FirstMax(ready, ExpireCooldowns(m, t), modelName, q, t)

\* variant of CooldownMark: the exponent is not capped
CooldownMarkUncapped(m, id, t) ==
    IF id \in DOMAIN m
    THEN LET k == m[id].consecutiveErrors + 1
         IN  [m EXCEPT ![id] = [@ EXCEPT
                !.status = "cooldown",
                !.consecutiveErrors = k,
                !.cooldownUntil = t + COOLDOWN_DURATION_MS * 2^(k - 1),
                !.errorCount = @ + 1]]
    ELSE m

CooldownMark(m, id, t) ==
    IF id \in DOMAIN m
    THEN LET k == m[id].consecutiveErrors + 1
         IN  [m EXCEPT ![id] = [@ EXCEPT
                !.status = "cooldown",
                !.consecutiveErrors = k,
                !.cooldownUntil = t + COOLDOWN_DURATION_MS * 2^Min(k - 1, BACKOFF_CAP),
                !.errorCount = @ + 1]]
    ELSE m

\* variant of ErrorMark: the failure also counts as a consecutive error
ErrorMarkCountingConsecutive(m, id) ==
    IF id \in DOMAIN m
    THEN [m EXCEPT ![id] = [@ EXCEPT !.status = "error", !.errorCount = @ + 1,
                                     !.consecutiveErrors = @ + 1]]
    ELSE m

ErrorMark(m, id) ==
    IF id \in DOMAIN m
    THEN [m EXCEPT ![id] = [@ EXCEPT !.status = "error", !.errorCount = @ + 1]]
    ELSE m

SuccessMark(m, id, t) ==
    IF id \in DOMAIN m
    THEN [m EXCEPT ![id] = [@ EXCEPT
            !.requestCount = @ + 1,
            !.lastUsed = t,
            !.consecutiveErrors = 0,
            !.status = IF @ \in {"error", "cooldown"} THEN "ready" ELSE @,
            !.cooldownUntil = IF m[id].status \in {"error", "cooldown"}
                              THEN Undefined ELSE @]]
    ELSE m

\* getEarliestCooldownEnd: null is Undefined
EarliestCooldownEnd(m, list) ==
    LET cd == {list[i] : i \in {j \in 1..Len(list) :
                    m[list[j]].status = "cooldown" /\ Truthy(m[list[j]].cooldownUntil)}}
    IN  IF cd = {} THEN Undefined
        ELSE CHOOSE u \in {m[id].cooldownUntil : id \in cd} :
                \A id \in cd : u <= m[id].cooldownUntil

CountSince(k, id, v) == [i \in (DOMAIN k) \cup {id} |-> IF i = id THEN v ELSE k[i]]

-----------------------------------------------------------------------------
(* Direct calls of the AccountsService methods *)

\* the marks recorded in the pool: what bounds the explored call sequences
RECURSIVE LoadUpTo(_, _)
LoadUpTo(m, n) ==
    IF n = 0 THEN 0
    ELSE m[n].errorCount + m[n].requestCount + LoadUpTo(m, n - 1)

Load(m) == LoadUpTo(m, Cardinality(DOMAIN m))

Called(op, id, ret) ==
    lastCall' = [op |-> op, id |-> id, ret |-> ret]

getReadyAccounts ==
    /\ accountStatesMap' = ExpireCooldowns(accountStatesMap, now)
    /\ Called("getReadyAccounts", Undefined,
              ReadyFilter(ExpireCooldowns(accountStatesMap, now), accountsList))
    /\ UNCHANGED <<now, accountsList, emailToIdMap, currentIndex, quotaCache,
                   maxRetryAccounts, dispatch, cooldownsSinceSuccess, started, ticks,
                   authVars, transportVars, ioVars>>

getNextAccount(modelName) ==
    LET sel == SelectNext(accountStatesMap, accountsList, modelName, quotaCache, now)
    IN  /\ accountStatesMap' = ExpireCooldowns(accountStatesMap, now)
        /\ currentIndex' = IF sel = Undefined THEN currentIndex
                           ELSE IndexOf(accountsList, sel)
        /\ lastCall' = [op |-> "getNextAccount", id |-> Undefined, ret |-> sel,
                        modelName |-> modelName]
        /\ UNCHANGED <<now, accountsList, emailToIdMap, quotaCache,
                       maxRetryAccounts, dispatch, cooldownsSinceSuccess, started, ticks,
                       authVars, transportVars, ioVars>>

markCooldown(id, ceCap, loadCap) ==
    /\ id \in DOMAIN accountStatesMap
    /\ accountStatesMap[id].consecutiveErrors < ceCap
    /\ Load(accountStatesMap) < loadCap
    /\ accountStatesMap' = CooldownMark(accountStatesMap, id, now)
    /\ cooldownsSinceSuccess' =
          CountSince(cooldownsSinceSuccess, id, cooldownsSinceSuccess[id] + 1)
    /\ Called("markCooldown", id, Undefined)
    /\ UNCHANGED <<now, accountsList, emailToIdMap, currentIndex, quotaCache,
                   maxRetryAccounts, dispatch, started, ticks,
                   authVars, transportVars, ioVars>>

markError(id, loadCap) ==
    /\ id \in DOMAIN accountStatesMap
    /\ Load(accountStatesMap) < loadCap
    /\ accountStatesMap' = ErrorMark(accountStatesMap, id)
    /\ Called("markError", id, Undefined)
    /\ UNCHANGED <<now, accountsList, emailToIdMap, currentIndex, quotaCache,
                   maxRetryAccounts, dispatch, cooldownsSinceSuccess, started, ticks,
                   authVars, transportVars, ioVars>>

markSuccess(id, loadCap) ==
    /\ id \in DOMAIN accountStatesMap
    /\ Load(accountStatesMap) < loadCap
    /\ accountStatesMap' = SuccessMark(accountStatesMap, id, now)
    /\ cooldownsSinceSuccess' = CountSince(cooldownsSinceSuccess, id, 0)
    /\ Called("markSuccess", id, Undefined)
    /\ UNCHANGED <<now, accountsList, emailToIdMap, currentIndex, quotaCache,
                   maxRetryAccounts, dispatch, started, ticks,
                   authVars, transportVars, ioVars>>

\* variant of AddAccountUpdate: an email already in the pool is not looked up
AddAccountAlwaysAppends(email, cap) ==
    LET id == getAccountCount(accountStatesMap) + 1
    IN  /\ Len(accountsList) < cap + 1
        /\ accountStatesMap' =
               [i \in (DOMAIN accountStatesMap) \cup {id} |->
                   IF i = id THEN NewState(email) ELSE accountStatesMap[i]]
        /\ accountsList' = Append(accountsList, id)
        /\ emailToIdMap' =
               [e \in (DOMAIN emailToIdMap) \cup {email} |->
                   IF e = email THEN id ELSE emailToIdMap[e]]
        /\ cooldownsSinceSuccess' = CountSince(cooldownsSinceSuccess, id, 0)

\* addAccount: the pool after the call, and the value returned
AddAccountUpdate(email, cap) ==
    IF email \in DOMAIN emailToIdMap
    THEN LET existingId == emailToIdMap[email]
         IN  /\ accountStatesMap' = [accountStatesMap EXCEPT ![existingId] =
                    [@ EXCEPT !.status = "ready", !.errorCount = 0]]
             /\ UNCHANGED <<accountsList, emailToIdMap, cooldownsSinceSuccess>>
    ELSE LET id == getAccountCount(accountStatesMap) + 1
         IN  /\ Len(accountsList) < cap
             /\ accountStatesMap' =
                    [i \in (DOMAIN accountStatesMap) \cup {id} |->
                        IF i = id THEN NewState(email) ELSE accountStatesMap[i]]
             /\ accountsList' = Append(accountsList, id)
             /\ emailToIdMap' =
                    [e \in (DOMAIN emailToIdMap) \cup {email} |->
                        IF e = email THEN id ELSE emailToIdMap[e]]
             /\ cooldownsSinceSuccess' = CountSince(cooldownsSinceSuccess, id, 0)

AddAccountResult(email) ==
    IF email \in DOMAIN emailToIdMap
    THEN [id |-> emailToIdMap[email],
          accountNumber |-> IndexOf(accountsList, emailToIdMap[email]) + 1,
          isNew |-> FALSE]
    ELSE [id |-> getAccountCount(accountStatesMap) + 1,
          accountNumber |-> getAccountCount(accountStatesMap) + 1,
          isNew |-> TRUE]

addAccount(email, cap) ==
    /\ AddAccountUpdate(email, cap)
    /\ Called("addAccount", Undefined, AddAccountResult(email))
    /\ UNCHANGED <<now, currentIndex, quotaCache, maxRetryAccounts, dispatch,
                   started, ticks,
                   authVars, transportVars, ioVars>>

\* the clock advances by 1 ms, or to the end of a pending cooldown, or just past it
TickSteps == {1} \cup
    UNION {{accountStatesMap[id].cooldownUntil - now,
            accountStatesMap[id].cooldownUntil - now + 1} : id \in
        {i \in DOMAIN accountStatesMap : accountStatesMap[i].cooldownUntil > now}}

Tick(cap) ==
    /\ ticks < cap
    /\ \E d \in TickSteps : now' = now + d
    /\ ticks' = ticks + 1
    /\ lastCall' = [op |-> "none", id |-> Undefined, ret |-> Undefined]
    /\ UNCHANGED <<accountStatesMap, accountsList, emailToIdMap, currentIndex,
                   quotaCache, maxRetryAccounts, dispatch, cooldownsSinceSuccess,
                   started,
                   authVars, transportVars, ioVars>>

-----------------------------------------------------------------------------
NoCall == [op |-> "none", id |-> Undefined, ret |-> Undefined]
Idle == [pc |-> "idle"]


-----------------------------------------------------------------------------
(* AntigravityService: one request handler.  The handlers exist twice in the
   sources: written out in each public method ("inline") and factored into
   withAccountRetry ("withAccountRetry"). *)

Impls == {"inline", "withAccountRetry"}
Kinds == {"unary", "stream"}
ApiTypes == {"openai", "anthropic"}

FreshRes == [headersSent |-> FALSE, writableEnded |-> FALSE, destroyed |-> FALSE,
             retryAfterHeader |-> Undefined, written |-> 0]

NoOutcome == [http |-> Undefined, errType |-> "", code |-> "",
              retryAfterBody |-> Undefined, from |-> Undefined, streamEnd |-> ""]

\* dto.model of the request
RequestModel == CHOOSE mn \in ModelNames : TRUE

Handler(impl, kind, apiType, n, cfgRetry) ==
    [pc |-> "start", impl |-> impl, kind |-> kind, apiType |-> apiType,
     model |-> RequestModel,
     poolAtStart |-> n, maxAttempts |-> Min(cfgRetry, n), attempt |-> 0,
     account |-> Undefined, selections |-> 0, upstreamCalls |-> 0, consumed |-> 0,
     tried |-> <<>>, replies |-> <<>>, res |-> FreshRes, outcome |-> NoOutcome]

CeilDiv(x, y) == IF x <= 0 THEN 0 - ((0 - x) \div y) ELSE (x + y - 1) \div y

\* getRetryAfterSeconds
RetryAfterSeconds(m, list, t) ==
    IF Truthy(EarliestCooldownEnd(m, list))
    THEN CeilDiv(EarliestCooldownEnd(m, list) - t, 1000)
    ELSE DEFAULT_RETRY_AFTER

\* the exception filter's reply to an HttpException thrown by the handler
Thrown(rec, http, errType, code, retryAfterBody) ==
    [rec EXCEPT !.pc = "done", !.account = Undefined,
        !.outcome = [NoOutcome EXCEPT !.http = http, !.errType = errType,
                        !.code = code, !.retryAfterBody = retryAfterBody]]

\* mapErrorType / mapAnthropicErrorType / mapHttpStatusToErrorCode on 429 and 5xx
OpenAiType(status) == IF status = 429 THEN "rate_limit_error" ELSE "server_error"
AnthropicType(status) == IF status = 429 THEN "rate_limit_error" ELSE "api_error"
OpenAiCode(status) ==
    IF status = 429 THEN "rate_limit_exceeded"
    ELSE IF status = 500 THEN "server_error" ELSE ""

\* handleStreamError / handleAnthropicStreamError / handleStreamErrorInternal
StreamErrorHandled(rec, status) ==
    IF ~rec.res.headersSent
    THEN [rec EXCEPT !.pc = "done", !.account = Undefined,
            !.res.headersSent = TRUE, !.res.writableEnded = TRUE,
            !.outcome = [NoOutcome EXCEPT !.http = status,
                !.errType = IF rec.apiType = "anthropic" THEN AnthropicType(status)
                            ELSE OpenAiType(status),
                !.code = IF rec.apiType = "anthropic" THEN "" ELSE OpenAiCode(status)]]
    ELSE IF ~rec.res.writableEnded
    THEN [rec EXCEPT !.pc = "done", !.account = Undefined,
            !.res.writableEnded = TRUE,
            !.outcome.streamEnd = "error",
            !.outcome.errType = IF rec.apiType = "anthropic" THEN AnthropicType(status)
                                ELSE OpenAiType(status)]
    ELSE [rec EXCEPT !.pc = "done", !.account = Undefined]

\* an error other than a rate limit leaves the handler
Propagated(rec, status) ==
    IF rec.kind = "stream" /\ (rec.impl = "inline" \/ rec.res.headersSent)
    THEN StreamErrorHandled(rec, status)
    ELSE Thrown(rec, status, OpenAiType(status), OpenAiCode(status), Undefined)

\* variant of Exhausted: the throw after the loop is a plain server error
ExhaustedAsServerError(rec) ==
    IF rec.kind = "stream" /\ rec.res.headersSent
    THEN StreamErrorHandled(rec, 500)
    ELSE Thrown(rec, 500, "server_error",
                IF rec.apiType = "anthropic" THEN "" ELSE "server_error",
                Undefined)

\* the throw after the retry loop
Exhausted(rec) ==
    IF rec.kind = "stream" /\ rec.res.headersSent
    THEN StreamErrorHandled(rec, 500)
    ELSE Thrown(rec, 429, "rate_limit_error",
                IF rec.apiType = "anthropic" THEN "" ELSE "rate_limit_exceeded",
                Undefined)

\* the throw when getNextAccount returned null
NoReady(rec, m, list, t) ==
    LET retryAfter == RetryAfterSeconds(m, list, t)
        counted == [rec EXCEPT !.selections = @ + 1]
    IN  IF rec.impl = "inline"
        THEN IF rec.apiType = "anthropic"
             THEN Thrown(counted, 429, "rate_limit_error", "", Undefined)
             ELSE Thrown([counted EXCEPT !.res.retryAfterHeader =
                                IF rec.kind = "stream" THEN retryAfter ELSE @],
                         429, "rate_limit_error", "rate_limit_exceeded", retryAfter)
        ELSE IF rec.kind = "stream" /\ rec.res.headersSent
             THEN StreamErrorHandled(counted, 500)
             ELSE Thrown([counted EXCEPT !.res.retryAfterHeader =
                                IF rec.kind = "stream" THEN retryAfter ELSE @],
                         429, "rate_limit_error",
                         IF rec.apiType = "anthropic" THEN "" ELSE "rate_limit_exceeded",
                         IF Truthy(retryAfter) THEN retryAfter ELSE Undefined)

\* variant of LoopHead: the loop condition is attempt <= maxAttempts
LoopHeadOffByOne(rec, m, list, ci, q, t) ==
    IF rec.attempt > rec.maxAttempts
    THEN [rec |-> Exhausted(rec), m |-> m, ci |-> ci]
    ELSE LET sel == SelectNext(m, list, "", q, t)
             m1 == ExpireCooldowns(m, t)
         IN  IF sel = Undefined
             THEN [rec |-> NoReady(rec, m1, list, t), m |-> m1, ci |-> ci]
             ELSE [rec |-> [rec EXCEPT !.pc = "awaiting", !.account = sel,
                                !.selections = @ + 1, !.tried = Append(@, sel)],
                   m |-> m1, ci |-> IndexOf(list, sel)]

\* the head of the retry loop, up to the first await of the attempt
LoopHead(rec, m, list, ci, q, t) ==
    IF rec.attempt >= rec.maxAttempts
    THEN [rec |-> Exhausted(rec), m |-> m, ci |-> ci]
    ELSE LET sel == SelectNext(m, list, "", q, t)
             m1 == ExpireCooldowns(m, t)
         IN  IF sel = Undefined
             THEN [rec |-> NoReady(rec, m1, list, t), m |-> m1, ci |-> ci]
             ELSE [rec |-> [rec EXCEPT !.pc = "awaiting", !.account = sel,
                                !.selections = @ + 1, !.tried = Append(@, sel)],
                   m |-> m1, ci |-> IndexOf(list, sel)]

\* isRateLimitError: true of an HttpException or an axios error of status 429,
\* be it the rejection of the POST or the error event of the upstream stream
IsRateLimitError(reply) == reply \in {"rateLimited", "streamRateLimited"}

\* variant of Caught: the retry goes on without markCooldown
CaughtWithoutCooldown(rec, reply, m, list, ci, q, t) ==
    LET retry == IF rec.kind = "stream" /\ rec.impl = "inline"
                 THEN IsRateLimitError(reply) /\ ~rec.res.headersSent
                 ELSE IsRateLimitError(reply)
    IN  IF retry
        THEN LoopHead([rec EXCEPT !.attempt = @ + 1], m, list, ci, q, t)
        ELSE [rec |-> Propagated(rec, IF IsRateLimitError(reply) THEN 429 ELSE 500),
              m |-> m, ci |-> ci]

\* the catch clause of an attempt
Caught(rec, reply, m, list, ci, q, t) ==
    LET retry == IF rec.kind = "stream" /\ rec.impl = "inline"
                 THEN IsRateLimitError(reply) /\ ~rec.res.headersSent
                 ELSE IsRateLimitError(reply)
    IN  IF retry
        THEN LoopHead([rec EXCEPT !.attempt = @ + 1],
                      CooldownMark(m, rec.account, t), list, ci, q, t)
        ELSE [rec |-> Propagated(rec, IF IsRateLimitError(reply) THEN 429 ELSE 500),
              m |-> m, ci |-> ci]

DispatchStep(d, r) ==
    /\ dispatch' = [dispatch EXCEPT ![d] = r.rec]
    /\ accountStatesMap' = r.m
    /\ currentIndex' = r.ci
    /\ cooldownsSinceSuccess' =
          [id \in DOMAIN cooldownsSinceSuccess |->
              IF r.m[id].requestCount > accountStatesMap[id].requestCount THEN 0
              ELSE cooldownsSinceSuccess[id]
                   + (r.m[id].consecutiveErrors - accountStatesMap[id].consecutiveErrors)]
    /\ lastCall' = [op |-> "none", id |-> Undefined, ret |-> Undefined]
    /\ started' = IF dispatch[d].pc \in {"idle", "done"} THEN started + 1 ELSE started
    /\ UNCHANGED <<now, accountsList, emailToIdMap, quotaCache, maxRetryAccounts, ticks,
                   authVars, transportVars, ioVars>>

\* variant of StartDispatch: the retry loop is entered without checkAccountsExist
StartDispatchWithoutCheck(d, impl, kind, apiType) ==
    /\ dispatch[d].pc \in {"idle", "done"}
    /\ started < MaxStarted
    /\ DispatchStep(d,
          LoopHead(Handler(impl, kind, apiType,
                           getAccountCount(accountStatesMap), maxRetryAccounts),
                   accountStatesMap, accountsList, currentIndex, quotaCache, now))

\* chatCompletion, chatCompletionStream, anthropicMessages, anthropicMessagesStream:
\* from the call to the first await
StartDispatch(d, impl, kind, apiType) ==
    /\ dispatch[d].pc \in {"idle", "done"}
    /\ started < MaxStarted
    /\ IF ~hasAccounts(accountStatesMap)
       THEN DispatchStep(d,
              [rec |-> Thrown(Handler(impl, kind, apiType, 0, maxRetryAccounts),
                              503, "", "", Undefined),
               m |-> accountStatesMap, ci |-> currentIndex])
       ELSE DispatchStep(d,
              LoopHead(Handler(impl, kind, apiType,
                               getAccountCount(accountStatesMap), maxRetryAccounts),
                       accountStatesMap, accountsList, currentIndex, quotaCache, now))

UpstreamReplies == {"ok", "rateLimited", "failed", "refreshFailed"}

\* the attempt's upstream call settles: the rest of the try block or the catch clause
UpstreamReply(d, reply) ==
    LET rec == dispatch[d]
        called == [rec EXCEPT !.replies = Append(@, reply),
                              !.upstreamCalls = @ + 1]
    IN  /\ rec.pc = "awaiting"
        /\ ~rec.res.headersSent
        /\ CASE reply = "ok" /\ rec.kind = "unary" ->
                  DispatchStep(d,
                    [rec |-> [called EXCEPT !.pc = "done", !.account = Undefined,
                                !.outcome = [NoOutcome EXCEPT !.http = 200,
                                                              !.from = rec.account]],
                     m |-> SuccessMark(accountStatesMap, rec.account, now),
                     ci |-> currentIndex])
             [] reply = "ok" /\ rec.kind = "stream" ->
                  DispatchStep(d,
                    [rec |-> [called EXCEPT !.pc = "streaming",
                                !.outcome = [NoOutcome EXCEPT !.from = rec.account]],
                     m |-> SuccessMark(accountStatesMap, rec.account, now),
                     ci |-> currentIndex])
             [] reply = "refreshFailed" ->
                  DispatchStep(d,
                    Caught([called EXCEPT !.upstreamCalls = rec.upstreamCalls], reply,
                           ErrorMark(accountStatesMap, rec.account),
                           accountsList, currentIndex, quotaCache, now))
             [] OTHER ->
                  DispatchStep(d,
                    Caught(called, reply, accountStatesMap, accountsList,
                           currentIndex, quotaCache, now))

\* an attempt begun after the response headers went out: setSSEHeaders throws
\* before the upstream is called (getProjectId may fail a token refresh first)
HeadersAlreadySent(d, reply) ==
    LET rec == dispatch[d]
    IN  /\ rec.pc = "awaiting"
        /\ rec.res.headersSent
        /\ DispatchStep(d,
             Caught([rec EXCEPT !.replies = Append(@, reply)], reply,
                    IF reply = "refreshFailed"
                    THEN ErrorMark(accountStatesMap, rec.account)
                    ELSE accountStatesMap,
                    accountsList, currentIndex, quotaCache, now))

\* processStream, on data: the upstream chunk is read and, unless the response
\* is ended or destroyed, a transformed chunk is written to the client
StreamData(d) ==
    LET rec == dispatch[d]
        read == [rec EXCEPT !.consumed = @ + 1]
    IN  /\ rec.pc = "streaming"
        /\ rec.consumed < MaxChunks
        /\ DispatchStep(d,
             [rec |-> IF rec.res.writableEnded \/ rec.res.destroyed THEN read
                      ELSE [read EXCEPT !.res.headersSent = TRUE,
                                        !.res.written = @ + 1],
              m |-> accountStatesMap, ci |-> currentIndex])

\* processStream, on end
StreamEnd(d) ==
    LET rec == dispatch[d]
    IN  /\ rec.pc = "streaming"
        /\ DispatchStep(d,
             [rec |-> IF rec.res.writableEnded \/ rec.res.destroyed
                      THEN [rec EXCEPT !.pc = "done", !.account = Undefined]
                      ELSE [rec EXCEPT !.pc = "done", !.account = Undefined,
                              !.res.headersSent = TRUE, !.res.writableEnded = TRUE,
                              !.outcome.http = 200, !.outcome.streamEnd = "done"],
              m |-> accountStatesMap, ci |-> currentIndex])

StreamErrors == {"streamFailed", "streamRateLimited"}

\* processStream, on error: the error event is written, the response ended and
\* the error thrown into the catch clause of the attempt
StreamError(d, err) ==
    LET rec == dispatch[d]
        ended == IF rec.res.writableEnded \/ rec.res.destroyed
                 THEN [rec EXCEPT !.replies = Append(@, err)]
                 ELSE [rec EXCEPT !.replies = Append(@, err),
                         !.res.headersSent = TRUE, !.res.writableEnded = TRUE,
                         !.outcome.http = 200, !.outcome.streamEnd = "error",
                         !.outcome.errType =
                             IF rec.apiType = "anthropic" THEN "api_error" ELSE ""]
    IN  /\ rec.pc = "streaming"
        /\ DispatchStep(d,
             Caught(ended, err, accountStatesMap, accountsList,
                    currentIndex, quotaCache, now))

\* the client closes the connection while its request is being served: the
\* response is destroyed; no handler listens to the close event
ClientDisconnect(d) ==
    LET rec == dispatch[d]
    IN  /\ rec.pc \in {"awaiting", "streaming"}
        /\ ~rec.res.destroyed
        /\ DispatchStep(d,
             [rec |-> [rec EXCEPT !.res.destroyed = TRUE],
              m |-> accountStatesMap, ci |-> currentIndex])

RECURSIVE SeqsUpTo(_, _)
SeqsUpTo(S, n) ==
    IF n = 0 THEN {<<>>}
    ELSE SeqsUpTo(S, n - 1) \cup
         {Append(s, e) : s \in {x \in SeqsUpTo(S, n - 1) : Len(x) = n - 1}, e \in S}


-----------------------------------------------------------------------------
(* Access tokens and project ids: AccountsService (credential N is account-N)
   and the single-credential AuthService (credential 0).  A call suspended at
   an await is a caller whose pc names the request it waits for. *)

AuthServiceKey == 0
Callers == 1..MaxCallers
Projects == {1, 2}
ConfiguredProject == 7

NewCredential(expiryDate, projectId) ==
    [accessToken |-> 0, expiryDate |-> expiryDate, projectId |-> projectId,
     discoveredProjectId |-> Undefined, projectDiscoveryPromise |-> Undefined]

NoCaller == [pc |-> "idle", op |-> "", account |-> Undefined, result |-> Undefined]

CallerDone(op, k, result) ==
    [pc |-> "done", op |-> op, account |-> k, result |-> result]

CallerFailed(op, k) ==
    [pc |-> "failed", op |-> op, account |-> k, result |-> Undefined]

isTokenExpired(cs, t) == t + REFRESH_BUFFER_MS >= cs.expiryDate

\* the requests in flight for one credential
RefreshesInFlight(k) ==
    {c \in Callers : callers[c].pc = "refreshing" /\ callers[c].account = k}

DiscoveriesInFlight(k) ==
    {c \in Callers : /\ callers[c].op = "getProjectId"
                     /\ callers[c].account = k
                     /\ callers[c].pc \in {"refreshing", "loading"}}

AwaitingPromise(k) ==
    {c \in Callers : callers[c].pc = "awaitingPromise" /\ callers[c].account = k}

AuthFrame ==
    UNCHANGED <<now, accountsList, emailToIdMap, currentIndex, quotaCache,
                maxRetryAccounts, dispatch, cooldownsSinceSuccess, ticks,
                transportVars, ioVars>>

\* getAccessToken up to its first await
CallGetAccessToken(c, k, cap) ==
    /\ started < cap
    /\ callers[c].pc \in {"idle", "done", "failed"}
    /\ k \in DOMAIN credentialState
    /\ started' = started + 1
    /\ callers' = [callers EXCEPT ![c] =
           IF isTokenExpired(credentialState[k], now)
           THEN [pc |-> "refreshing", op |-> "getAccessToken", account |-> k,
                 result |-> Undefined]
           ELSE CallerDone("getAccessToken", k, credentialState[k].accessToken)]
    /\ lastCall' = NoCall
    /\ UNCHANGED <<accountStatesMap, credentialState>>
    /\ AuthFrame

\* getProjectId up to its first await; only AuthService keeps the promise of a
\* discovery in progress
CallGetProjectId(c, k, cap) ==
    /\ started < cap
    /\ callers[c].pc \in {"idle", "done", "failed"}
    /\ k \in DOMAIN credentialState
    /\ started' = started + 1
    /\ LET cs == credentialState[k]
           discovering == [pc |-> IF isTokenExpired(cs, now) THEN "refreshing"
                                  ELSE "loading",
                           op |-> "getProjectId", account |-> k,
                           result |-> Undefined]
       IN  IF cs.projectId # Undefined
           THEN /\ callers' = [callers EXCEPT ![c] =
                                   CallerDone("getProjectId", k, cs.projectId)]
                /\ UNCHANGED credentialState
           ELSE IF cs.discoveredProjectId # Undefined
           THEN /\ callers' = [callers EXCEPT ![c] =
                                   CallerDone("getProjectId", k, cs.discoveredProjectId)]
                /\ UNCHANGED credentialState
           ELSE IF k = AuthServiceKey /\ cs.projectDiscoveryPromise # Undefined
           THEN /\ callers' = [callers EXCEPT ![c] =
                                   [pc |-> "awaitingPromise", op |-> "getProjectId",
                                    account |-> k, result |-> Undefined]]
                /\ UNCHANGED credentialState
           ELSE /\ callers' = [callers EXCEPT ![c] = discovering]
                /\ credentialState' = [credentialState EXCEPT ![k] =
                       [@ EXCEPT !.projectDiscoveryPromise =
                            IF k = AuthServiceKey THEN c ELSE Undefined]]
    /\ lastCall' = NoCall
    /\ UNCHANGED accountStatesMap
    /\ AuthFrame

\* the token endpoint answers the refresh of caller c
RefreshReply(c, ok) ==
    /\ callers[c].pc = "refreshing"
    /\ LET k == callers[c].account
           op == callers[c].op
           refreshed == [credentialState[k] EXCEPT
                            !.accessToken = @ + 1,
                            !.expiryDate = now + EXPIRES_IN * 1000]
       IN  IF ok
           THEN /\ credentialState' = [credentialState EXCEPT ![k] = refreshed]
                /\ callers' = [callers EXCEPT ![c] =
                       IF op = "getAccessToken"
                       THEN CallerDone(op, k, refreshed.accessToken)
                       ELSE [@ EXCEPT !.pc = "loading"]]
                /\ UNCHANGED accountStatesMap
           ELSE /\ credentialState' = [credentialState EXCEPT ![k] =
                       [@ EXCEPT !.projectDiscoveryPromise =
                            IF op = "getProjectId" THEN Undefined ELSE @]]
                /\ callers' = [x \in Callers |->
                       IF x = c \/ (op = "getProjectId" /\ x \in AwaitingPromise(k))
                       THEN CallerFailed(callers[x].op, k)
                       ELSE callers[x]]
                /\ accountStatesMap' =
                       IF k = AuthServiceKey THEN accountStatesMap
                       ELSE ErrorMark(accountStatesMap, k)
    /\ lastCall' = NoCall
    /\ UNCHANGED started
    /\ AuthFrame

\* loadCodeAssist / onboardUser end with a project id: the server's, or a
\* generated one when the sequence fails
DiscoveryReply(c, project) ==
    /\ callers[c].pc = "loading"
    /\ LET k == callers[c].account
       IN  /\ credentialState' = [credentialState EXCEPT ![k] =
                  [@ EXCEPT !.discoveredProjectId = project,
                            !.projectDiscoveryPromise = Undefined]]
           /\ callers' = [x \in Callers |->
                  IF x = c \/ x \in AwaitingPromise(k)
                  THEN CallerDone("getProjectId", k, project)
                  ELSE callers[x]]
    /\ lastCall' = NoCall
    /\ UNCHANGED <<accountStatesMap, started>>
    /\ AuthFrame

-----------------------------------------------------------------------------
(* AntigravityService.makeRequest and createStreamRequest: one upstream
   request of one account, the POSTs it makes and the token refreshes it asks
   for.  A base URL is its index in BASE_URLS. *)

RequestKinds == {"unary", "stream"}
Statuses == {200, 401, 429, 500}
TokenRefreshFailed == 0

NoRequest ==
    [pc |-> "idle", kind |-> "", account |-> Undefined, i |-> 0,
     url |-> Undefined, events |-> <<>>, result |-> Undefined]

PostEvent(url, status) == [type |-> "post", url |-> url, status |-> status]
RefreshEvent(ok) ==
    [type |-> "refresh", url |-> Undefined,
     status |-> IF ok THEN 200 ELSE TokenRefreshFailed]

RequestDone(r, event, result) ==
    [r EXCEPT !.pc = "done", !.events = Append(@, event), !.result = result]

TransportFrame ==
    UNCHANGED <<now, accountsList, emailToIdMap, currentIndex, quotaCache,
                maxRetryAccounts, dispatch, cooldownsSinceSuccess, ticks,
                callers, baseUrlsLength, ioVars>>

\* makeRequest / createStreamRequest up to the first await: getAuthHeaders
\* refreshes an expired token, then the POST goes to the URL under the cursor
StartRequest(kind, k, cap) ==
    /\ started < cap
    /\ request.pc \in {"idle", "done"}
    /\ k \in DOMAIN credentialState
    /\ started' = started + 1
    /\ request' =
           [pc |-> IF isTokenExpired(credentialState[k], now)
                   THEN "authenticating" ELSE "posting",
            kind |-> kind, account |-> k, i |-> 0,
            url |-> currentBaseUrlIndex % baseUrlsLength,
            events |-> <<>>, result |-> Undefined]
    /\ lastCall' = NoCall
    /\ UNCHANGED <<accountStatesMap, credentialState, currentBaseUrlIndex>>
    /\ TransportFrame

\* the token endpoint answers a refresh asked by the request
TokenReply(ok) ==
    /\ request.pc \in {"authenticating", "refreshing", "reauthenticating"}
    /\ LET k == request.account
           refreshed == [credentialState[k] EXCEPT
                            !.accessToken = @ + 1,
                            !.expiryDate = now + EXPIRES_IN * 1000]
       IN  IF ok
           THEN /\ credentialState' = [credentialState EXCEPT ![k] = refreshed]
                /\ request' = [request EXCEPT
                       !.events = Append(@, RefreshEvent(TRUE)),
                       !.pc = IF request.pc = "authenticating" THEN "posting"
                              ELSE IF request.pc = "refreshing"
                                      /\ isTokenExpired(refreshed, now)
                                   THEN "reauthenticating"
                              ELSE "retrying"]
                /\ UNCHANGED accountStatesMap
           ELSE /\ accountStatesMap' = ErrorMark(accountStatesMap, k)
                /\ request' = RequestDone(request, RefreshEvent(FALSE),
                       IF request.pc = "authenticating" THEN TokenRefreshFailed
                       ELSE 401)
                /\ UNCHANGED credentialState
    /\ lastCall' = NoCall
    /\ UNCHANGED <<started, currentBaseUrlIndex>>
    /\ TransportFrame

\* the answer to a POST, in a transport that moves on to the next base URL
\* after a 429 as after any other failure
PostReplyRotatingOn429(status) ==
    /\ request.pc \in {"posting", "retrying"}
    /\ LET event == PostEvent(request.url, status)
       IN  IF status = 200
           THEN /\ request' = RequestDone(request, event, 200)
                /\ UNCHANGED currentBaseUrlIndex
           ELSE IF request.kind = "stream"
           THEN /\ request' = RequestDone(request, event, status)
                /\ UNCHANGED currentBaseUrlIndex
           ELSE IF request.pc = "retrying"
           THEN /\ request' = RequestDone(request, event, 401)
                /\ UNCHANGED currentBaseUrlIndex
           ELSE IF status = 401
           THEN /\ request' = [request EXCEPT !.pc = "refreshing",
                                              !.events = Append(@, event)]
                /\ UNCHANGED currentBaseUrlIndex
           ELSE IF request.i = baseUrlsLength - 1
           THEN /\ request' = RequestDone(request, event, status)
                /\ UNCHANGED currentBaseUrlIndex
           ELSE /\ currentBaseUrlIndex' = (currentBaseUrlIndex + 1) % baseUrlsLength
                /\ request' = [request EXCEPT
                       !.events = Append(@, event),
                       !.i = @ + 1,
                       !.url = (currentBaseUrlIndex' + request.i + 1) % baseUrlsLength]
    /\ lastCall' = NoCall
    /\ UNCHANGED <<accountStatesMap, credentialState, started>>
    /\ TransportFrame

\* the answer to a POST: the first POST of a loop turn, or the retry that
\* follows a 401 and a token refresh
PostReply(status) ==
    /\ request.pc \in {"posting", "retrying"}
    /\ LET event == PostEvent(request.url, status)
       IN  IF status = 200
           THEN /\ request' = RequestDone(request, event, 200)
                /\ UNCHANGED currentBaseUrlIndex
           ELSE IF request.kind = "stream"
           THEN /\ request' = RequestDone(request, event, status)
                /\ UNCHANGED currentBaseUrlIndex
           ELSE IF request.pc = "retrying"
           THEN /\ request' = RequestDone(request, event, 401)
                /\ UNCHANGED currentBaseUrlIndex
           ELSE IF status = 429
           THEN /\ request' = RequestDone(request, event, 429)
                /\ UNCHANGED currentBaseUrlIndex
           ELSE IF status = 401
           THEN /\ request' = [request EXCEPT !.pc = "refreshing",
                                              !.events = Append(@, event)]
                /\ UNCHANGED currentBaseUrlIndex
           ELSE IF request.i = baseUrlsLength - 1
           THEN /\ request' = RequestDone(request, event, status)
                /\ UNCHANGED currentBaseUrlIndex
           ELSE /\ currentBaseUrlIndex' = (currentBaseUrlIndex + 1) % baseUrlsLength
                /\ request' = [request EXCEPT
                       !.events = Append(@, event),
                       !.i = @ + 1,
                       !.url = (currentBaseUrlIndex' + request.i + 1) % baseUrlsLength]
    /\ lastCall' = NoCall
    /\ UNCHANGED <<accountStatesMap, credentialState, started>>
    /\ TransportFrame

-----------------------------------------------------------------------------
(* The OpenAI dialect: StreamTransformerService.transformStreamChunk and
   createFinalChunk as driven by chatCompletionStream, and the unary
   ResponseTransformerService.  A string is the sequence of its characters; a
   part is its text, its thought flag and its function call (0: none, else
   the arguments it carries) with the functionCall id ("" for none). *)

TextPart(text, thought) == [text |-> text, thought |-> thought, call |-> 0, id |-> ""]
CallPart(text, args, id) == [text |-> text, thought |-> FALSE, call |-> args, id |-> id]

StreamParts ==
    {TextPart(<<"a">>, FALSE), TextPart(<<"b">>, TRUE),
     CallPart(<<>>, 1, "call_a"), CallPart(<<"c">>, 2, "call_b")}

FinishReasons == {"", "MAX_TOKENS", "SAFETY"}
TokenCounts == {0, 5}

\* the upstream chunks: with a candidate and its parts, or without one
StreamChunks ==
    [candidate : {TRUE}, parts : SeqsUpTo(StreamParts, MaxParts),
     finishReason : FinishReasons, candidatesTokenCount : TokenCounts]
    \cup
    [candidate : {FALSE}, parts : {<<>>},
     finishReason : {""}, candidatesTokenCount : TokenCounts]

\* JSON.stringify(funcCall.args || {})
Stringify(args) == IF args = 1 THEN <<"{", "}">> ELSE <<"{", "x", "}">>

RECURSIVE ExtractText(_, _)
\* extractContent / extractStreamContent: the texts of the parts with the
\* given thought flag, concatenated
ExtractText(parts, thought) ==
    IF parts = <<>> THEN <<>>
    ELSE (IF parts[1].text # <<>> /\ parts[1].thought = thought
          THEN parts[1].text ELSE <<>>) \o ExtractText(Tail(parts), thought)

RECURSIVE ExtractCallIds(_)
\* extractStreamContent: the ids of the function calls, in the order of the parts
ExtractCallIds(parts) ==
    IF parts = <<>> THEN <<>>
    ELSE (IF parts[1].call # 0 THEN <<parts[1].id>> ELSE <<>>)
         \o ExtractCallIds(Tail(parts))

RECURSIVE ExtractCalls(_)
\* extractContent / extractStreamContent: the argument strings of the function
\* calls, in the order of the parts
ExtractCalls(parts) ==
    IF parts = <<>> THEN <<>>
    ELSE (IF parts[1].call # 0 THEN <<Stringify(parts[1].call)>> ELSE <<>>)
         \o ExtractCalls(Tail(parts))

\* mapFinishReason
mapFinishReason(reason) ==
    IF reason = "MAX_TOKENS" THEN "length"
    ELSE IF reason \in {"SAFETY", "RECITATION"} THEN "content_filter"
    ELSE "stop"

\* determineFinalFinishReason
determineFinalFinishReason(acc) ==
    IF acc.hasToolCalls THEN "tool_calls"
    ELSE IF acc.accumulatedFinishReason = "length" THEN "length"
    ELSE IF acc.accumulatedFinishReason = "content_filter" THEN "content_filter"
    ELSE "stop"

\* createStreamAccumulator: the fields that reach the output
createStreamAccumulator ==
    [toolIdx |-> 0, hasToolCalls |-> FALSE, isComplete |-> FALSE,
     accumulatedFinishReason |-> ""]

NoRecord == [type |-> "none"]
DoneRecord == [type |-> "done"]

\* a ChatCompletionChunk: its delta, finish_reason ("" for null) and whether
\* it has a usage block
ChunkRecord(role, content, reasoning, toolCalls, finish, usage) ==
    [type |-> "chunk", role |-> role, content |-> content,
     reasoning_content |-> reasoning, tool_calls |-> toolCalls,
     finish_reason |-> finish, usage |-> usage]

\* variant of transformStreamChunk: a tool call's index is its place in the chunk
transformStreamChunkLocalIndex(chunk, isFirst, acc) ==
    LET hasUsage == chunk.candidatesTokenCount > 0
        calls == ExtractCalls(chunk.parts)
        acc1 == IF calls # <<>>
                THEN [acc EXCEPT !.hasToolCalls = TRUE,
                                 !.accumulatedFinishReason = "tool_calls",
                                 !.toolIdx = @ + Len(calls)]
                ELSE acc
        acc2 == IF chunk.finishReason # "" /\ acc1.accumulatedFinishReason = ""
                THEN [acc1 EXCEPT !.accumulatedFinishReason =
                                      mapFinishReason(chunk.finishReason)]
                ELSE acc1
        acc3 == IF hasUsage THEN [acc2 EXCEPT !.isComplete = TRUE] ELSE acc2
        toolCalls == [i \in 1..Len(calls) |->
                         [index |-> i - 1,
                          id |-> ExtractCallIds(chunk.parts)[i],
                          arguments |-> calls[i]]]
    IN  IF ~chunk.candidate
        THEN IF hasUsage
             THEN [acc |-> [acc EXCEPT !.isComplete = TRUE],
                   out |-> ChunkRecord(FALSE, <<>>, <<>>, <<>>,
                                       determineFinalFinishReason(acc), TRUE)]
             ELSE [acc |-> acc, out |-> NoRecord]
        ELSE [acc |-> acc3,
              out |-> ChunkRecord(isFirst, ExtractText(chunk.parts, FALSE),
                         ExtractText(chunk.parts, TRUE), toolCalls,
                         IF hasUsage THEN determineFinalFinishReason(acc3) ELSE "",
                         hasUsage)]

\* transformStreamChunk: the accumulator after the call and the chunk returned
transformStreamChunk(chunk, isFirst, acc) ==
    LET hasUsage == chunk.candidatesTokenCount > 0
        calls == ExtractCalls(chunk.parts)
        acc1 == IF calls # <<>>
                THEN [acc EXCEPT !.hasToolCalls = TRUE,
                                 !.accumulatedFinishReason = "tool_calls",
                                 !.toolIdx = @ + Len(calls)]
                ELSE acc
        acc2 == IF chunk.finishReason # "" /\ acc1.accumulatedFinishReason = ""
                THEN [acc1 EXCEPT !.accumulatedFinishReason =
                                      mapFinishReason(chunk.finishReason)]
                ELSE acc1
        acc3 == IF hasUsage THEN [acc2 EXCEPT !.isComplete = TRUE] ELSE acc2
        toolCalls == [i \in 1..Len(calls) |->
                         [index |-> acc1.toolIdx - Len(calls) + (i - 1),
                          id |-> ExtractCallIds(chunk.parts)[i],
                          arguments |-> calls[i]]]
    IN  IF ~chunk.candidate
        THEN IF hasUsage
             THEN [acc |-> [acc EXCEPT !.isComplete = TRUE],
                   out |-> ChunkRecord(FALSE, <<>>, <<>>, <<>>,
                                       determineFinalFinishReason(acc), TRUE)]
             ELSE [acc |-> acc, out |-> NoRecord]
        ELSE [acc |-> acc3,
              out |-> ChunkRecord(isFirst, ExtractText(chunk.parts, FALSE),
                         ExtractText(chunk.parts, TRUE), toolCalls,
                         IF hasUsage THEN determineFinalFinishReason(acc3) ELSE "",
                         hasUsage)]

\* createFinalChunk
createFinalChunk(acc) ==
    ChunkRecord(FALSE, <<>>, <<>>, <<>>, determineFinalFinishReason(acc), FALSE)

\* transformResponse: message.content (null when empty), reasoning_content and
\* the tool calls' argument strings of candidates[0]
Null == <<"null">>
transformResponse(parts) ==
    [content |-> IF ExtractText(parts, FALSE) = <<>> THEN Null
                 ELSE ExtractText(parts, FALSE),
     reasoning_content |-> ExtractText(parts, TRUE),
     tool_calls |-> ExtractCalls(parts)]

NoStream ==
    [pc |-> "idle", impl |-> "", isFirst |-> TRUE, acc |-> createStreamAccumulator,
     parts |-> <<>>, read |-> 0, finishReasons |-> {}, usageRecords |-> {},
     written |-> <<>>]

IoFrame(v) == UNCHANGED <<serviceVars, v>>

\* chatCompletionStream, on a data line carrying a chunk: the chunk is
\* transformed and, unless null, written
OnData(chunk, cap) ==
    /\ oaStream.pc = "open"
    /\ oaStream.read < cap
    /\ LET t == transformStreamChunk(chunk, oaStream.isFirst, oaStream.acc)
           wrote == t.out # NoRecord
       IN  oaStream' = [oaStream EXCEPT
               !.acc = t.acc,
               !.read = @ + 1,
               !.parts = @ \o chunk.parts,
               !.finishReasons = @ \cup {chunk.finishReason},
               !.isFirst = IF wrote THEN FALSE ELSE @,
               !.written = IF wrote THEN Append(@, t.out) ELSE @,
               !.usageRecords = IF wrote /\ chunk.candidatesTokenCount > 0
                                THEN @ \cup {Len(oaStream.written) + 1} ELSE @]
    /\ IoFrame(<<anStream, sse, guard, schemaIO>>)

\* on the data line "data: [DONE]" sent by the upstream: the inline loop writes
\* the sentinel, the SSEStreamParser drops the line
OnUpstreamDone(cap) ==
    /\ oaStream.pc = "open"
    /\ oaStream.read < cap
    /\ oaStream' = [oaStream EXCEPT
           !.read = @ + 1,
           !.written = IF oaStream.impl = "inline" THEN Append(@, DoneRecord) ELSE @]
    /\ IoFrame(<<anStream, sse, guard, schemaIO>>)

\* on end: the final chunk unless the stream is complete, then the sentinel
OnEnd ==
    /\ oaStream.pc = "open"
    /\ oaStream' = [oaStream EXCEPT
           !.pc = "ended",
           !.acc.isComplete = TRUE,
           !.written = (IF oaStream.acc.isComplete THEN @
                        ELSE Append(@, createFinalChunk(oaStream.acc)))
                       \o <<DoneRecord>>]
    /\ IoFrame(<<anStream, sse, guard, schemaIO>>)

-----------------------------------------------------------------------------
(* The Anthropic dialect: AnthropicTransformerService.transformStreamChunk and
   createFinalEvents as driven by anthropicMessagesStream.  An event is its
   type, the index of its content block, for content_block_start and
   content_block_delta the type of the block (text_delta, thinking_delta and
   input_json_delta are written text, thinking and tool_use) and, for
   message_delta, its stop_reason. *)

StreamEvent(type, index) ==
    [type |-> type, index |-> index, block |-> "", stop_reason |-> ""]
BlockEvent(type, index, block) ==
    [type |-> type, index |-> index, block |-> block, stop_reason |-> ""]
MessageDelta(reason) ==
    [type |-> "message_delta", index |-> Undefined, block |-> "", stop_reason |-> reason]

\* createStreamAccumulator: currentBlockIndex is Len(contentBlocks) - 1
createAnthropicAccumulator ==
    [contentBlocks |-> <<>>, stopReason |-> "", isComplete |-> FALSE]

HasToolUse(blocks) == \E i \in 1..Len(blocks) : blocks[i] = "tool_use"

\* mapStopReason
mapStopReason(reason, hasToolUse) ==
    IF hasToolUse THEN "tool_use"
    ELSE IF reason = "MAX_TOKENS" THEN "max_tokens" ELSE "end_turn"

\* determineFinalStopReason
determineFinalStopReason(acc) ==
    IF HasToolUse(acc.contentBlocks) THEN "tool_use"
    ELSE IF acc.stopReason # "" THEN acc.stopReason ELSE "end_turn"

\* contentBlocks.findIndex: the 0-based index of the first block of the type, or -1
FindBlock(blocks, type) ==
    IF \E i \in 1..Len(blocks) : blocks[i] = type
    THEN (CHOOSE i \in 1..Len(blocks) :
              blocks[i] = type /\ \A h \in 1..(i - 1) : blocks[h] # type) - 1
    ELSE -1

RECURSIVE PartEvents(_, _, _)
\* the loop over the parts of a candidate: the blocks and the events after it
PartEvents(parts, blocks, events) ==
    IF parts = <<>> THEN [blocks |-> blocks, events |-> events]
    ELSE LET part == parts[1]
             blockType == IF part.thought THEN "thinking" ELSE "text"
             existing == FindBlock(blocks, blockType)
             blocks1 == IF part.text # <<>> /\ existing = -1
                        THEN Append(blocks, blockType) ELSE blocks
             events1 ==
                 IF part.text = <<>> THEN events
                 ELSE (IF existing = -1
                       THEN Append(events,
                                BlockEvent("content_block_start", Len(blocks1) - 1,
                                           blockType))
                       ELSE events)
                      \o <<BlockEvent("content_block_delta",
                               IF existing # -1 THEN existing ELSE Len(blocks1) - 1,
                               blockType)>>
             blocks2 == IF part.call # 0 THEN Append(blocks1, "tool_use") ELSE blocks1
             events2 ==
                 IF part.call = 0 THEN events1
                 ELSE events1 \o
                      <<BlockEvent("content_block_start", Len(blocks2) - 1, "tool_use"),
                        BlockEvent("content_block_delta", Len(blocks2) - 1, "tool_use"),
                        StreamEvent("content_block_stop", Len(blocks2) - 1)>>
         IN  PartEvents(Tail(parts), blocks2, events2)

RECURSIVE BlockStops(_, _, _)
\* content_block_stop for the blocks from 0-based index i on, tool_use blocks
\* included or not
BlockStops(blocks, i, withTools) ==
    IF i >= Len(blocks) THEN <<>>
    ELSE (IF withTools \/ blocks[i + 1] # "tool_use"
          THEN <<StreamEvent("content_block_stop", i)>> ELSE <<>>)
         \o BlockStops(blocks, i + 1, withTools)

\* transformStreamChunk: the accumulator after the call and the events returned
anthropicTransformStreamChunk(chunk, acc, isFirst) ==
    LET start == IF isFirst THEN <<StreamEvent("message_start", Undefined)>> ELSE <<>>
        hasUsage == chunk.candidatesTokenCount > 0
        looped == PartEvents(chunk.parts, acc.contentBlocks, start)
        acc1 == [acc EXCEPT !.contentBlocks = looped.blocks]
        acc2 == IF chunk.finishReason # ""
                THEN [acc1 EXCEPT !.stopReason =
                         mapStopReason(chunk.finishReason, HasToolUse(looped.blocks))]
                ELSE acc1
    IN  IF ~chunk.candidate
        THEN IF hasUsage
             THEN [acc |-> [acc EXCEPT !.isComplete = TRUE],
                   events |-> start \o <<MessageDelta(determineFinalStopReason(acc)),
                                         StreamEvent("message_stop", Undefined)>>]
             ELSE [acc |-> acc, events |-> start]
        ELSE IF hasUsage
        THEN [acc |-> [acc2 EXCEPT !.isComplete = TRUE],
              events |-> looped.events
                         \o BlockStops(acc2.contentBlocks, 0, FALSE)
                         \o <<MessageDelta(determineFinalStopReason(acc2)),
                              StreamEvent("message_stop", Undefined)>>]
        ELSE [acc |-> acc2, events |-> looped.events]

\* createFinalEvents
createFinalEvents(acc) ==
    IF acc.isComplete THEN <<>>
    ELSE BlockStops(acc.contentBlocks, 0, TRUE)
         \o <<MessageDelta(determineFinalStopReason(acc)),
              StreamEvent("message_stop", Undefined)>>

NoAnthropicStream ==
    [pc |-> "idle", isFirst |-> TRUE, acc |-> createAnthropicAccumulator,
     read |-> 0, events |-> <<>>, lastCount |-> 0, lastUsage |-> FALSE,
     completeBefore |-> FALSE]

\* anthropicMessagesStream, on a data line: the events of the chunk are written
AnthropicOnData(chunk, cap) ==
    /\ anStream.pc = "open"
    /\ anStream.read < cap
    /\ LET t == anthropicTransformStreamChunk(chunk, anStream.acc, anStream.isFirst)
       IN  anStream' = [anStream EXCEPT
               !.acc = t.acc,
               !.read = @ + 1,
               !.isFirst = IF t.events # <<>> THEN FALSE ELSE @,
               !.events = @ \o t.events,
               !.lastCount = Len(t.events),
               !.lastUsage = chunk.candidatesTokenCount > 0,
               !.completeBefore = anStream.acc.isComplete]
    /\ IoFrame(<<oaStream, sse, guard, schemaIO>>)

\* on end: the events of createFinalEvents are written
AnthropicOnEnd ==
    /\ anStream.pc = "open"
    /\ LET final == createFinalEvents(anStream.acc)
       IN  anStream' = [anStream EXCEPT
               !.pc = "ended",
               !.events = @ \o final,
               !.lastCount = Len(final),
               !.lastUsage = FALSE,
               !.completeBefore = anStream.acc.isComplete]
    /\ IoFrame(<<oaStream, sse, guard, schemaIO>>)

-----------------------------------------------------------------------------
(* SSEStreamParser.  The input is a sequence of bytes, a chunk a run of them;
   chunk.toString() decodes each chunk on its own.  A byte is written as the
   ASCII character it encodes; "C3" "A9" are the two bytes of one character. *)

DataPrefix == <<"d", "a", "t", "a", ":", " ">>
DoneLiteral == <<"[", "D", "O", "N", "E", "]">>
LeadByte == "C3"
ContinuationByte == "A9"
ReplacementChar == "FFFD"

SsePieces ==
    {DataPrefix, DoneLiteral, <<"x">>, <<" ">>, <<"\n">>, <<LeadByte, ContinuationByte>>}

RECURSIVE Decode(_)
\* Buffer.toString(): UTF-8 decoding, a byte sequence that is not a character
\* becoming U+FFFD
Decode(bytes) ==
    IF bytes = <<>> THEN <<>>
    ELSE IF bytes[1] = LeadByte
    THEN IF Len(bytes) >= 2 /\ bytes[2] = ContinuationByte
         THEN <<"e'">> \o Decode(SubSeq(bytes, 3, Len(bytes)))
         ELSE <<ReplacementChar>> \o Decode(Tail(bytes))
    ELSE IF bytes[1] = ContinuationByte
    THEN <<ReplacementChar>> \o Decode(Tail(bytes))
    ELSE <<bytes[1]>> \o Decode(Tail(bytes))

RECURSIVE Trim(_)
\* String.prototype.trim
Trim(str) ==
    IF str = <<>> THEN <<>>
    ELSE IF str[1] = " " THEN Trim(Tail(str))
    ELSE IF str[Len(str)] = " " THEN Trim(SubSeq(str, 1, Len(str) - 1))
    ELSE str

StartsWith(str, prefix) ==
    Len(str) >= Len(prefix) /\ SubSeq(str, 1, Len(prefix)) = prefix

RECURSIVE ParseLines(_, _, _)
\* split('\n'), lines.pop() and the loop over the completed lines: the text is
\* read from the left, line holding the characters of the line being read
ParseLines(text, line, dataLines) ==
    IF text = <<>> THEN [buffer |-> line, dataLines |-> dataLines]
    ELSE IF text[1] = "\n"
    THEN LET data == IF StartsWith(line, DataPrefix)
                     THEN Trim(SubSeq(line, Len(DataPrefix) + 1, Len(line)))
                     ELSE <<>>
         IN  ParseLines(Tail(text), <<>>,
                 IF data # <<>> /\ data # DoneLiteral
                 THEN Append(dataLines, data) ELSE dataLines)
    ELSE ParseLines(Tail(text), Append(line, text[1]), dataLines)

\* parseChunk: the buffer after the call and the payloads returned
parseChunk(buffer, chunk) == ParseLines(buffer \o Decode(chunk), <<>>, <<>>)

RECURSIVE Concat(_)
Concat(pieces) == IF pieces = <<>> THEN <<>> ELSE pieces[1] \o Concat(Tail(pieces))

SseInputs == {Concat(ps) : ps \in SeqsUpTo(SsePieces, MaxPieces)}

NoParse == [pc |-> "idle", input |-> <<>>, pos |-> 0, buffer |-> <<>>, payloads |-> <<>>]

\* the next k bytes of the input arrive as one chunk
Feed(k) ==
    /\ sse.pc = "reading"
    /\ sse.pos + k <= Len(sse.input)
    /\ LET p == parseChunk(sse.buffer, SubSeq(sse.input, sse.pos + 1, sse.pos + k))
       IN  sse' = [sse EXCEPT !.pos = @ + k,
                              !.buffer = p.buffer,
                              !.payloads = @ \o p.dataLines]
    /\ IoFrame(<<oaStream, anStream, guard, schemaIO>>)

-----------------------------------------------------------------------------
(* ApiKeyGuard.  A header is absent ("" or no word) or present; the
   Authorization header is the sequence of the words split(' ') gives. *)

NoApiKey == ""
ApiKeys == {NoApiKey, "k1", "k2"}
GuardPaths == {"/v1/messages", "/v1/chat/completions"}
AuthorizationHeaders ==
    {<<>>, <<"Bearer", "k1">>, <<"Bearer", "k2">>, <<"Bearer">>,
     <<"Basic", "k1">>, <<"k1">>, <<"Bearer", "", "k1">>}
XApiKeyHeaders == {"", "k1", "k2"}

GuardRequests ==
    [path : GuardPaths, authorization : AuthorizationHeaders, xApiKey : XApiKeyHeaders]

Unauthorized == [status |-> 401, token |-> ""]

\* extractAnthropicKey
extractAnthropicKey(req) ==
    IF req.xApiKey = "" THEN Unauthorized
    ELSE [status |-> 200, token |-> req.xApiKey]

\* extractOpenAIKey
extractOpenAIKey(req) ==
    IF req.authorization = <<>> THEN Unauthorized
    ELSE IF req.authorization[1] # "Bearer" \/ Len(req.authorization) < 2
            \/ req.authorization[IF Len(req.authorization) < 2 THEN 1 ELSE 2] = ""
    THEN Unauthorized
    ELSE [status |-> 200, token |-> req.authorization[2]]

\* canActivate: 200 when the request is admitted, else the status thrown
canActivateStatus(req, apiKey) ==
    LET extracted == IF req.path = "/v1/messages" THEN extractAnthropicKey(req)
                     ELSE extractOpenAIKey(req)
    IN  IF extracted.status # 200 THEN extracted.status
        ELSE IF apiKey = NoApiKey THEN 200
        ELSE IF extracted.token # apiKey THEN 401
        ELSE 200

NoGuard == [apiKey |-> NoApiKey, checked |-> FALSE,
            request |-> [path |-> "", authorization |-> <<>>, xApiKey |-> ""],
            status |-> Undefined]

canActivate(req) ==
    /\ guard' = [guard EXCEPT !.checked = TRUE, !.request = req,
                              !.status = canActivateStatus(req, guard.apiKey)]
    /\ IoFrame(<<oaStream, anStream, sse, schemaIO>>)

-----------------------------------------------------------------------------
(* cleanSchemaForClaude.  A schema is the set of its keywords with a scalar
   value, its properties (name and schema each) and its items (no or one
   schema). *)

SCHEMA_KEYS_TO_REMOVE ==
    {"$schema", "additionalProperties", "strict", "default", "title", "$id", "$ref"}
ScalarKeys == {"type", "title"}
PropertyNames == {"p"}

RECURSIVE Schemas(_)
Schemas(depth) ==
    IF depth = 0
    THEN [keys : SUBSET ScalarKeys, properties : {<<>>}, items : {<<>>}]
    ELSE LET sub == Schemas(depth - 1)
         IN  [keys : SUBSET ScalarKeys,
              properties : {<<>>} \cup
                  {<<[name |-> n, schema |-> s]>> : n \in PropertyNames, s \in sub},
              items : {<<>>} \cup {<<s>> : s \in sub}]

RECURSIVE cleanSchemaForClaude(_)
\* the keys of SCHEMA_KEYS_TO_REMOVE are deleted from the copy, and every
\* object under properties is cleaned in turn
cleanSchemaForClaude(schema) ==
    [keys |-> schema.keys \ SCHEMA_KEYS_TO_REMOVE,
     properties |-> [i \in 1..Len(schema.properties) |->
                        [name |-> schema.properties[i].name,
                         schema |-> cleanSchemaForClaude(schema.properties[i].schema)]],
     items |-> schema.items]

NoSchema ==
    [pc |-> "idle", input |-> [keys |-> {}, properties |-> <<>>, items |-> <<>>],
     once |-> [keys |-> {}, properties |-> <<>>, items |-> <<>>],
     twice |-> [keys |-> {}, properties |-> <<>>, items |-> <<>>]]

\* the schema of a tool is cleaned, and the result cleaned again
CleanSchema ==
    /\ schemaIO.pc = "input"
    /\ schemaIO' = [schemaIO EXCEPT
           !.pc = "cleaned",
           !.once = cleanSchemaForClaude(schemaIO.input),
           !.twice = cleanSchemaForClaude(cleanSchemaForClaude(schemaIO.input))]
    /\ IoFrame(<<oaStream, anStream, sse, guard>>)

-----------------------------------------------------------------------------
(* Initial states and specifications *)

InitBase(cfg) ==
    /\ now = InitialNow
    /\ accountStatesMap = LoadedMap(cfg)
    /\ accountsList = LoadedList(cfg)
    /\ emailToIdMap = LoadEmailIndex(cfg, Len(cfg))
    /\ currentIndex = 0
    /\ quotaCache = <<>>
    /\ dispatch = [d \in 1..MaxDispatch |-> Idle]
    /\ lastCall = NoCall
    /\ cooldownsSinceSuccess = [id \in 1..Len(cfg) |-> 0]
    /\ started = 0
    /\ ticks = 0

IoInit(o, a, p, g, c) ==
    /\ oaStream = o
    /\ anStream = a
    /\ sse = p
    /\ guard = g
    /\ schemaIO = c

IoIdle == IoInit(NoStream, NoAnthropicStream, NoParse, NoGuard, NoSchema)

\* the pool as loaded, no token or upstream request in flight
InitWith(cfg) ==
    /\ InitBase(cfg)
    /\ credentialState = [k \in 0..Len(cfg) |-> NewCredential(0, Undefined)]
    /\ callers = [c \in Callers |-> NoCaller]
    /\ currentBaseUrlIndex = 0
    /\ baseUrlsLength = BaseUrlCount
    /\ request = NoRequest
    /\ IoIdle

\* the service with no account, for the components that use none
InitService ==
    /\ InitBase(<<>>)
    /\ maxRetryAccounts = 3
    /\ credentialState = [k \in 0..0 |-> NewCredential(0, Undefined)]
    /\ callers = [c \in Callers |-> NoCaller]
    /\ currentBaseUrlIndex = 0
    /\ baseUrlsLength = BaseUrlCount
    /\ request = NoRequest

PoolEmails == {"e1", "e2"}

\* the configured lists, up to the naming of the emails
PoolConfigs ==
    {cfg \in SeqsUpTo(PoolEmails, MaxConfigured) :
        Len(cfg) <= MaxPoolAccounts /\ (Len(cfg) > 0 => cfg[1] = "e1")}

InitPool ==
    /\ \E cfg \in PoolConfigs : InitWith(cfg)
    /\ maxRetryAccounts = 3

NextPool ==
    \/ getReadyAccounts
    \/ \E mn \in ModelNames \cup {""} : getNextAccount(mn)
    \/ \E id \in 1..MaxPoolAccounts :
            markCooldown(id, MaxPoolConsecutive, MaxPoolMarks)
    \/ \E id \in 1..MaxPoolAccounts : markError(id, MaxPoolMarks)
    \/ \E id \in 1..MaxPoolAccounts : markSuccess(id, MaxPoolMarks)
    \/ \E e \in PoolEmails : addAccount(e, MaxPoolAccounts)
    \/ Tick(MaxPoolTicks)

SpecPool == InitPool /\ [][NextPool]_vars

\* one account, followed through the whole backoff schedule
InitBackoff ==
    /\ InitWith(<<"e1">>)
    /\ maxRetryAccounts = 3

NextBackoff ==
    \/ getReadyAccounts
    \/ getNextAccount("")
    \/ markCooldown(1, MaxConsecutive, MaxBackoffMarks)
    \/ markError(1, MaxBackoffMarks)
    \/ markSuccess(1, MaxBackoffMarks)
    \/ addAccount("e1", 1)
    \/ Tick(MaxBackoffTicks)

SpecBackoff == InitBackoff /\ [][NextBackoff]_vars

\* QuotaService.updateQuotasFromModels: the remaining fraction (in 1/1000) of
\* one model of one account is cached
QuotaValues == {10, 600, 1000}

updateQuotasFromModels(id, modelName, quota) ==
    /\ id \in DOMAIN accountStatesMap
    /\ quotaCache' =
          [i \in (DOMAIN quotaCache) \cup {id} |->
              IF i = id
              THEN LET old == IF id \in DOMAIN quotaCache THEN quotaCache[id] ELSE <<>>
                   IN  [mn \in (DOMAIN old) \cup {modelName} |->
                           IF mn = modelName THEN quota ELSE old[mn]]
              ELSE quotaCache[i]]
    /\ lastCall' = NoCall
    /\ UNCHANGED <<now, accountStatesMap, accountsList, emailToIdMap, currentIndex,
                   maxRetryAccounts, dispatch, cooldownsSinceSuccess, started, ticks,
                   authVars, transportVars, ioVars>>

\* the accounts stay idle for a second or for an hour
WaitSteps == {1000, 3600000}

Wait(cap) ==
    /\ ticks < cap
    /\ \E d \in WaitSteps : now' = now + d
    /\ ticks' = ticks + 1
    /\ lastCall' = NoCall
    /\ UNCHANGED <<accountStatesMap, accountsList, emailToIdMap, currentIndex,
                   quotaCache, maxRetryAccounts, dispatch, cooldownsSinceSuccess,
                   started,
                   authVars, transportVars, ioVars>>

\* two accounts with cached quotas, used and left idle: the selection by score
InitSelect ==
    /\ InitWith(<<"e1", "e2">>)
    /\ maxRetryAccounts = 3

NextSelect ==
    \/ \E mn \in ModelNames \cup {""} : getNextAccount(mn)
    \/ \E id \in 1..2 : markSuccess(id, MaxSelectMarks)
    \/ \E id \in 1..2 : markCooldown(id, 1, MaxSelectMarks)
    \/ \E id \in 1..2, mn \in ModelNames, quota \in QuotaValues :
            updateQuotasFromModels(id, mn, quota)
    \/ Wait(MaxSelectWaits)

SpecSelect == InitSelect /\ [][NextSelect]_vars

\* requests dispatched over two accounts whose quotas for the model are cached
InitQuotaDispatch ==
    /\ InitWith(<<"e1", "e2">>)
    /\ maxRetryAccounts = 3

NextQuotaDispatch ==
    \/ \E id \in 1..2, quota \in {10, 1000} :
            updateQuotasFromModels(id, RequestModel, quota)
    \/ \E impl \in Impls, kind \in Kinds, apiType \in ApiTypes :
            StartDispatch(1, impl, kind, apiType)
    \/ \E reply \in {"ok", "rateLimited"} : UpstreamReply(1, reply)
    \/ StreamEnd(1)

SpecQuotaDispatch == InitQuotaDispatch /\ [][NextQuotaDispatch]_vars

\* streaming requests whose client may disconnect at any time
InitDisconnect ==
    /\ InitWith(<<"e1", "e2">>)
    /\ maxRetryAccounts = 3

NextDisconnect ==
    \/ \E impl \in Impls, apiType \in ApiTypes : StartDispatch(1, impl, "stream", apiType)
    \/ \E reply \in UpstreamReplies : UpstreamReply(1, reply)
    \/ \E reply \in UpstreamReplies : HeadersAlreadySent(1, reply)
    \/ StreamData(1)
    \/ StreamEnd(1)
    \/ \E err \in StreamErrors : StreamError(1, err)
    \/ ClientDisconnect(1)

SpecDisconnect == InitDisconnect /\ [][NextDisconnect]_vars

\* concurrent callers of getAccessToken and getProjectId on one account and on
\* the single-credential service
AuthExpiries == {0, InitialNow + EXPIRES_IN * 1000}
AuthProjectIds == {Undefined, ConfiguredProject}

InitAuth ==
    /\ InitBase(<<"e1">>)
    /\ maxRetryAccounts = 3
    /\ \E e \in AuthExpiries, p \in AuthProjectIds :
           credentialState = [k \in 0..1 |-> NewCredential(e, p)]
    /\ callers = [c \in Callers |-> NoCaller]
    /\ currentBaseUrlIndex = 0
    /\ baseUrlsLength = BaseUrlCount
    /\ request = NoRequest
    /\ IoIdle

NextAuth ==
    \/ \E c \in Callers, k \in 0..1 : CallGetAccessToken(c, k, MaxAuthCalls)
    \/ \E c \in Callers, k \in 0..1 : CallGetProjectId(c, k, MaxAuthCalls)
    \/ \E c \in Callers, ok \in BOOLEAN : RefreshReply(c, ok)
    \/ \E c \in Callers, project \in Projects : DiscoveryReply(c, project)
    \/ Wait(MaxAuthWaits)

SpecAuth == InitAuth /\ [][NextAuth]_vars

\* upstream requests of one account, one after another
InitTransport ==
    /\ InitBase(<<"e1">>)
    /\ maxRetryAccounts = 3
    /\ \E e \in AuthExpiries :
           credentialState = [k \in 0..1 |-> NewCredential(e, Undefined)]
    /\ callers = [c \in Callers |-> NoCaller]
    /\ currentBaseUrlIndex = 0
    /\ baseUrlsLength = BaseUrlCount
    /\ request = NoRequest
    /\ IoIdle

NextTransport ==
    \/ \E kind \in RequestKinds : StartRequest(kind, 1, MaxTransportCalls)
    \/ \E ok \in BOOLEAN : TokenReply(ok)
    \/ \E status \in Statuses : PostReply(status)

SpecTransport == InitTransport /\ [][NextTransport]_vars

\* unary requests over base URL lists of every length up to MaxBaseUrls, from
\* every position of the cursor
InitFailover ==
    /\ InitBase(<<"e1">>)
    /\ maxRetryAccounts = 3
    /\ credentialState = [k \in 0..1 |-> NewCredential(InitialNow + EXPIRES_IN * 1000, Undefined)]
    /\ callers = [c \in Callers |-> NoCaller]
    /\ baseUrlsLength \in 1..MaxBaseUrls
    /\ currentBaseUrlIndex \in 0..(baseUrlsLength - 1)
    /\ request = NoRequest
    /\ IoIdle

NextFailover ==
    \/ StartRequest("unary", 1, MaxTransportCalls)
    \/ \E ok \in BOOLEAN : TokenReply(ok)
    \/ \E status \in Statuses : PostReply(status)

SpecFailover == InitFailover /\ [][NextFailover]_vars

\* one OpenAI streaming response, by either implementation of the handler
InitOpenAiStream ==
    /\ InitService
    /\ \E impl \in Impls :
           IoInit([NoStream EXCEPT !.pc = "open", !.impl = impl],
                  NoAnthropicStream, NoParse, NoGuard, NoSchema)

NextOpenAiStream ==
    \/ \E chunk \in StreamChunks : OnData(chunk, MaxStreamChunks)
    \/ OnUpstreamDone(MaxStreamChunks)
    \/ OnEnd

SpecOpenAiStream == InitOpenAiStream /\ [][NextOpenAiStream]_vars

\* one Anthropic streaming response
InitAnthropicStream ==
    /\ InitService
    /\ IoInit(NoStream, [NoAnthropicStream EXCEPT !.pc = "open"],
              NoParse, NoGuard, NoSchema)

NextAnthropicStream ==
    \/ \E chunk \in StreamChunks : AnthropicOnData(chunk, MaxStreamChunks)
    \/ AnthropicOnEnd

SpecAnthropicStream == InitAnthropicStream /\ [][NextAnthropicStream]_vars

\* one upstream body, cut into chunks at any byte
InitSse ==
    /\ InitService
    /\ \E input \in SseInputs :
           IoInit(NoStream, NoAnthropicStream,
                  [NoParse EXCEPT !.pc = "reading", !.input = input],
                  NoGuard, NoSchema)

NextSse == \E k \in 1..(MaxPieces * Len(DataPrefix)) : Feed(k)

SpecSse == InitSse /\ [][NextSse]_vars

\* the guard with or without a configured key, one request after another
InitGuard ==
    /\ InitService
    /\ \E apiKey \in ApiKeys :
           IoInit(NoStream, NoAnthropicStream, NoParse,
                  [NoGuard EXCEPT !.apiKey = apiKey], NoSchema)

NextGuard == \E req \in GuardRequests : canActivate(req)

SpecGuard == InitGuard /\ [][NextGuard]_vars

\* the schemas of bounded nesting, each cleaned once and twice
InitSchema ==
    /\ InitService
    /\ \E schema \in Schemas(MaxSchemaDepth) :
           IoInit(NoStream, NoAnthropicStream, NoParse, NoGuard,
                  [NoSchema EXCEPT !.pc = "input", !.input = schema])

NextSchema == CleanSchema

SpecSchema == InitSchema /\ [][NextSchema]_vars

\* the clock reaches, or passes by a millisecond, the end of a pending cooldown
PendingCooldowns ==
    {id \in DOMAIN accountStatesMap :
        /\ accountStatesMap[id].status = "cooldown"
        /\ accountStatesMap[id].cooldownUntil >= now}

Elapse ==
    /\ \E id \in PendingCooldowns, d \in 0..1 :
           /\ accountStatesMap[id].cooldownUntil + d > now
           /\ now' = accountStatesMap[id].cooldownUntil + d
    /\ ticks' = ticks + 1
    /\ lastCall' = NoCall
    /\ UNCHANGED <<accountStatesMap, accountsList, emailToIdMap, currentIndex,
                   quotaCache, maxRetryAccounts, dispatch, cooldownsSinceSuccess,
                   started,
                   authVars, transportVars, ioVars>>

\* two accounts marked and read while time goes by; the clock does not stop
\* before a pending cooldown has ended, and the pool keeps being read
InitRecovery ==
    /\ InitWith(<<"e1", "e2">>)
    /\ maxRetryAccounts = 3

NextRecovery ==
    \/ getReadyAccounts
    \/ getNextAccount("")
    \/ \E id \in 1..2 : markCooldown(id, MaxLiveConsecutive, MaxLiveMarks)
    \/ \E id \in 1..2 : markError(id, MaxLiveMarks)
    \/ \E id \in 1..2 : markSuccess(id, MaxLiveMarks)
    \/ Elapse

SpecRecovery ==
    InitRecovery /\ [][NextRecovery]_vars /\ WF_vars(Elapse) /\ WF_vars(getReadyAccounts)

\* two requests served concurrently by withAccountRetry over three accounts
InitConcurrent ==
    /\ InitWith(<<"e1", "e2", "e3">>)
    /\ maxRetryAccounts = 3

NextConcurrent ==
    \/ \E d \in 1..MaxDispatch, kind \in Kinds :
            StartDispatch(d, "withAccountRetry", kind, "openai")
    \/ \E d \in 1..MaxDispatch, reply \in UpstreamReplies : UpstreamReply(d, reply)
    \/ \E d \in 1..MaxDispatch : StreamEnd(d)

SpecConcurrent == InitConcurrent /\ [][NextConcurrent]_vars

\* the service answering one request after another, with accounts added by the
\* OAuth callback and the clock advancing in between
DispatchConfigs == {<<>>, <<"e1", "e2">>}

\* emails are opaque keys: a new account takes the next email not yet used
EmailOrder == <<"e1", "e2", "e3">>
KnownOrNext(e) ==
    \/ e \in DOMAIN emailToIdMap
    \/ /\ Len(accountsList) < Len(EmailOrder)
       /\ e = EmailOrder[Len(accountsList) + 1]

Init ==
    /\ \E cfg \in DispatchConfigs : InitWith(cfg)
    /\ maxRetryAccounts \in 1..MaxRetryConfig

Next ==
    \/ \E impl \in Impls, kind \in Kinds, apiType \in ApiTypes :
            StartDispatch(1, impl, kind, apiType)
    \/ \E reply \in UpstreamReplies : UpstreamReply(1, reply)
    \/ \E reply \in {"failed", "refreshFailed"} : HeadersAlreadySent(1, reply)
    \/ StreamData(1)
    \/ StreamEnd(1)
    \/ \E err \in StreamErrors : StreamError(1, err)
    \/ \E e \in Emails : KnownOrNext(e) /\ addAccount(e, MaxAccounts)
    \/ Tick(MaxTicks)

Spec == Init /\ [][Next]_vars

-----------------------------------------------------------------------------
(* Properties *)

Range(s) == {s[i] : i \in 1..Len(s)}

AllRateLimited(replies) == \A i \in 1..Len(replies) : replies[i] = "rateLimited"

\* C1: rotation under 429.  The step that handles the 429 of the first selected
\* account leaves that account in cooldown with consecutiveErrors one higher and,
\* for a first failure, cooldownUntil = now + base, and selects another, ready
\* account; the step that handles the 200 of that second account leaves it
\* ready with requestCount one higher, leaves the first account as it was (in
\* cooldown unless it was added again meanwhile) and answers the client from
\* the second account's reply.
C1_RotationStep(d) ==
    LET rec == dispatch[d]
        new == dispatch'[d]
    IN  /\ (rec.pc = "awaiting" /\ rec.replies = <<>>
                /\ new.replies = <<"rateLimited">>) =>
              LET a1 == rec.account
              IN  /\ accountStatesMap'[a1].status = "cooldown"
                  /\ accountStatesMap'[a1].consecutiveErrors =
                        accountStatesMap[a1].consecutiveErrors + 1
                  /\ (accountStatesMap[a1].consecutiveErrors = 0 =>
                        accountStatesMap'[a1].cooldownUntil = now + COOLDOWN_DURATION_MS)
                  /\ (new.pc = "awaiting" =>
                        /\ new.account # a1
                        /\ accountStatesMap'[new.account].status = "ready")
        /\ (rec.pc = "awaiting" /\ rec.replies = <<"rateLimited">>
                /\ new.replies = <<"rateLimited", "ok">>) =>
              LET a1 == rec.tried[1]
                  a2 == rec.account
              IN  /\ a2 # a1
                  /\ accountStatesMap'[a1] = accountStatesMap[a1]
                  /\ \/ accountStatesMap'[a1].status = "cooldown"
                     \/ accountStatesMap'[a1].errorCount = 0
                  /\ accountStatesMap'[a2].status = "ready"
                  /\ accountStatesMap'[a2].requestCount =
                        accountStatesMap[a2].requestCount + 1
                  /\ new.outcome.from = a2
                  /\ (new.kind = "unary" => new.pc = "done" /\ new.outcome.http = 200)
                  /\ (new.kind = "stream" => new.pc = "streaming")

C1_Rotation == [][\A d \in DOMAIN dispatch : C1_RotationStep(d)]_vars

C1_Witness ==
    \E d \in DOMAIN dispatch :
        LET rec == dispatch[d]
        IN  /\ rec.pc = "done"
            /\ rec.kind = "unary"
            /\ rec.replies = <<"rateLimited", "ok">>
            /\ rec.outcome.http = 200
            /\ rec.outcome.from = rec.tried[2]
            /\ accountStatesMap[rec.tried[1]].status = "cooldown"
            /\ accountStatesMap[rec.tried[1]].consecutiveErrors = 1
            /\ accountStatesMap[rec.tried[1]].cooldownUntil = now + COOLDOWN_DURATION_MS
            /\ accountStatesMap[rec.tried[2]].status = "ready"
            /\ accountStatesMap[rec.tried[2]].requestCount = 1

\* C2: exhaustion.  While every attempt of a dispatch has ended in an upstream
\* 429, each such reply puts the attempted account in cooldown and marks no
\* account successful; when the dispatch ends that way it fails with HTTP 429,
\* error type rate_limit_error (OpenAI dialect: code rate_limit_exceeded), and
\* every attempted account is in cooldown unless it was added again or its
\* cooldown ran out meanwhile.
C2_ExhaustionStep(d) ==
    LET rec == dispatch[d]
        new == dispatch'[d]
    IN  (rec.pc = "awaiting" /\ AllRateLimited(rec.replies)
            /\ new.replies = Append(rec.replies, "rateLimited")) =>
          /\ accountStatesMap'[rec.account].status = "cooldown"
          /\ \A id \in DOMAIN accountStatesMap :
                /\ accountStatesMap'[id].requestCount = accountStatesMap[id].requestCount
                /\ accountStatesMap'[id].lastUsed = accountStatesMap[id].lastUsed
          /\ (new.pc = "done" =>
                /\ new.outcome.http = 429
                /\ new.outcome.errType = "rate_limit_error"
                /\ (new.apiType = "openai" => new.outcome.code = "rate_limit_exceeded")
                /\ new.outcome.from = Undefined
                /\ \A a \in Range(new.tried) :
                      \/ accountStatesMap'[a].status = "cooldown"
                      \/ accountStatesMap'[a].errorCount = 0
                      \/ accountStatesMap'[a].cooldownUntil = Undefined)

C2_Exhaustion == [][\A d \in DOMAIN dispatch : C2_ExhaustionStep(d)]_vars

C2_Witness ==
    \E d \in DOMAIN dispatch :
        LET rec == dispatch[d]
        IN  /\ rec.pc = "done"
            /\ rec.apiType = "openai"
            /\ rec.replies = <<"rateLimited", "rateLimited">>
            /\ rec.outcome.http = 429
            /\ rec.outcome.code = "rate_limit_exceeded"
            /\ Len(accountsList) = 2
            /\ \A id \in DOMAIN accountStatesMap :
                  /\ accountStatesMap[id].status = "cooldown"
                  /\ accountStatesMap[id].requestCount = 0

\* C3: every 429 with which a dispatch ends because no account was ready or
\* because all attempts were used up carries a Retry-After value, as a header
\* or in the body.
C3_RetryAfterCarried ==
    \A d \in DOMAIN dispatch :
        LET rec == dispatch[d]
        IN  (rec.pc = "done" /\ rec.outcome.http = 429) =>
                \/ rec.res.retryAfterHeader # Undefined
                \/ rec.outcome.retryAfterBody # Undefined

\* C4: a dispatch makes at most min(maxRetryAccounts, accounts in the pool at
\* its start) account selections and at most as many upstream calls.
C4_AttemptsBounded ==
    \A d \in DOMAIN dispatch :
        LET rec == dispatch[d]
        IN  rec.pc # "idle" =>
                /\ rec.selections <= Min(maxRetryAccounts, rec.poolAtStart)
                /\ rec.upstreamCalls <= Min(maxRetryAccounts, rec.poolAtStart)

C4_Witness ==
    \E d \in DOMAIN dispatch :
        LET rec == dispatch[d]
        IN  /\ rec.pc = "done"
            /\ maxRetryAccounts = 1
            /\ rec.poolAtStart = 2
            /\ rec.replies = <<"rateLimited">>
            /\ rec.selections = 1
            /\ rec.upstreamCalls = 1
            /\ rec.outcome.http = 429
            /\ \E id \in DOMAIN accountStatesMap : accountStatesMap[id].status = "ready"

\* C5: in a streaming dispatch, once response bytes have been written to the
\* client, a rate-limit error marks no account, selects no further account and
\* ends the dispatch with the stream closed on an error event.
C5_NoFailoverStep(d) ==
    LET rec == dispatch[d]
        new == dispatch'[d]
    IN  (rec.pc = "streaming" /\ rec.res.headersSent
            /\ new.replies = Append(rec.replies, "streamRateLimited")) =>
          /\ accountStatesMap' = accountStatesMap
          /\ new.selections = rec.selections
          /\ new.pc = "done"
          /\ new.outcome.streamEnd = "error"

C5_NoFailoverAfterHeaders == [][\A d \in DOMAIN dispatch : C5_NoFailoverStep(d)]_vars

\* C6: right after markSuccess(a), a is ready, its cooldownUntil is unset and
\* its consecutiveErrors is 0.
C6_AfterMarkSuccess ==
    lastCall.op = "markSuccess" =>
        LET a == accountStatesMap[lastCall.id]
        IN  /\ a.status = "ready"
            /\ a.cooldownUntil = Undefined
            /\ a.consecutiveErrors = 0

\* C7: exponential backoff.  consecutiveErrors of an account is the number of
\* markCooldown calls on it since its last markSuccess (or its creation), and
\* right after the k-th such call the account is in cooldown with
\* cooldownUntil = now + base * 2^min(k-1, 6).
C7_ExponentialBackoff ==
    /\ \A id \in DOMAIN accountStatesMap :
          accountStatesMap[id].consecutiveErrors = cooldownsSinceSuccess[id]
    /\ lastCall.op = "markCooldown" =>
          LET a == accountStatesMap[lastCall.id]
              k == cooldownsSinceSuccess[lastCall.id]
          IN  /\ k >= 1
              /\ a.status = "cooldown"
              /\ a.cooldownUntil = now + COOLDOWN_DURATION_MS * 2^Min(k - 1, 6)

C7_Witness ==
    /\ lastCall.op = "markCooldown"
    /\ cooldownsSinceSuccess[lastCall.id] = 8
    /\ accountStatesMap[lastCall.id].cooldownUntil = now + COOLDOWN_DURATION_MS * 64

\* C8: right after a read that enumerates the ready accounts, an account is in
\* cooldown if and only if its cooldownUntil is set and >= now.
C8_CooldownIffPending ==
    lastCall.op \in {"getReadyAccounts", "getNextAccount"} =>
        \A id \in DOMAIN accountStatesMap :
            LET a == accountStatesMap[id]
            IN  (a.status = "cooldown") <=>
                    (a.cooldownUntil # Undefined /\ a.cooldownUntil >= now)

\* C9: getNextAccount returns null if and only if no account is ready after
\* the lazy expiry, and otherwise an account whose status is ready.
C9_SelectorReturnsReady ==
    lastCall.op = "getNextAccount" =>
        /\ (lastCall.ret = Undefined) <=>
              (\A id \in DOMAIN accountStatesMap : accountStatesMap[id].status # "ready")
        /\ (lastCall.ret # Undefined =>
              /\ lastCall.ret \in DOMAIN accountStatesMap
              /\ accountStatesMap[lastCall.ret].status = "ready")

C9_Witness ==
    /\ lastCall.op = "getNextAccount"
    /\ lastCall.ret # Undefined
    /\ accountStatesMap[lastCall.ret].status = "ready"
    /\ \E id \in DOMAIN accountStatesMap :
          /\ accountStatesMap[id].status \in {"cooldown", "error"}
          /\ IndexOf(accountsList, id) < IndexOf(accountsList, lastCall.ret)

\* C10: lazy expiry.  A call of getReadyAccounts at time now flips every account
\* in cooldown whose cooldownUntil <= now to ready, clears its cooldownUntil
\* and returns it among the ready accounts.
C10_ExpiryStep ==
    lastCall'.op = "getReadyAccounts" =>
        \A id \in DOMAIN accountStatesMap :
            (/\ accountStatesMap[id].status = "cooldown"
             /\ accountStatesMap[id].cooldownUntil # Undefined
             /\ accountStatesMap[id].cooldownUntil <= now) =>
                /\ accountStatesMap'[id].status = "ready"
                /\ accountStatesMap'[id].cooldownUntil = Undefined
                /\ id \in Range(lastCall'.ret)

C10_LazyExpiry == [][C10_ExpiryStep]_vars

\* C11: no account returned by getReadyAccounts carries a cooldownUntil that is
\* <= now: every returned account is ready with no elapsed cooldown deadline.
C11_ReadyCarryNoElapsedCooldown ==
    lastCall.op = "getReadyAccounts" =>
        \A id \in Range(lastCall.ret) :
            LET a == accountStatesMap[id]
            IN  /\ a.status = "ready"
                /\ ~(a.cooldownUntil # Undefined /\ a.cooldownUntil <= now)

PoolEmailsOf(m) == {m[id].email : id \in DOMAIN m}

\* C12: addAccount is idempotent on email.  A call with an email already in the
\* pool returns the id of an account with that email and isNew = false and
\* leaves the accounts and their ids as they were; a call with a new email
\* appends exactly one account, whose id is its 1-based insertion rank; no
\* account ever changes its id or its email, and the k-th account inserted has
\* id k.
C12_AddAccountStep ==
    lastCall'.op = "addAccount" =>
        LET ret == lastCall'.ret
            email == accountStatesMap'[ret.id].email
        IN  /\ ret.isNew <=> (email \notin PoolEmailsOf(accountStatesMap))
            /\ (~ret.isNew =>
                  /\ accountsList' = accountsList
                  /\ DOMAIN accountStatesMap' = DOMAIN accountStatesMap
                  /\ ret.id \in DOMAIN accountStatesMap
                  /\ accountStatesMap[ret.id].email = email)
            /\ (ret.isNew =>
                  /\ accountsList' = Append(accountsList, ret.id)
                  /\ ret.id = Len(accountsList) + 1
                  /\ ret.accountNumber = Len(accountsList) + 1
                  /\ DOMAIN accountStatesMap' = (DOMAIN accountStatesMap) \cup {ret.id}
                  /\ ret.id \notin DOMAIN accountStatesMap)
            /\ \A id \in DOMAIN accountStatesMap :
                  accountStatesMap'[id].email = accountStatesMap[id].email
            /\ \A i \in 1..Len(accountsList') : accountsList'[i] = i

C12_AddAccountIdempotent == [][C12_AddAccountStep]_vars

C12_Witness ==
    /\ lastCall.op = "addAccount"
    /\ ~lastCall.ret.isNew
    /\ lastCall.ret.id = 2
    /\ Len(accountsList) = 2
    /\ accountStatesMap[1].email # accountStatesMap[2].email

\* C13: after addAccount with the email of an existing account, that account
\* is ready and its errorCount and consecutiveErrors are 0.
C13_UpdateResetsErrors ==
    (lastCall.op = "addAccount" /\ ~lastCall.ret.isNew) =>
        LET a == accountStatesMap[lastCall.ret.id]
        IN  /\ a.status = "ready"
            /\ a.errorCount = 0
            /\ a.consecutiveErrors = 0

\* the score as the claim states it, times 10000
ClaimedScore(id, M) ==
    LET a == accountStatesMap[id]
        entry == IF M # "" /\ id \in DOMAIN quotaCache /\ M \in DOMAIN quotaCache[id]
                 THEN quotaCache[id][M] ELSE Undefined
    IN  (IF entry = Undefined THEN 0
         ELSE 1000 * entry * 10 - (IF entry <= QUOTA_THRESHOLD THEN 50000000 ELSE 0))
        - 1000 * a.requestCount
        + (IF a.lastUsed = Undefined THEN 40000000
           ELSE Min((now - a.lastUsed) * 10, 36000000))

ReadyNow == {id \in DOMAIN accountStatesMap : accountStatesMap[id].status = "ready"}

EntryOf(id, M) ==
    IF M # "" /\ id \in DOMAIN quotaCache /\ M \in DOMAIN quotaCache[id]
    THEN quotaCache[id][M] ELSE Undefined

\* C17: getNextAccount(M) returns the ready account with the maximum score
\* (1000 * fraction, minus 5000 if exhausted, when M is given and has an entry;
\* minus 0.1 * requestCount; plus 4000 if never used, else min(seconds since
\* last use, 3600)), ties going to the earliest-inserted account; with equal
\* usage and recency more quota wins, with equal quota and recency the smaller
\* requestCount wins.
C17_MaxScoreSelected ==
    (lastCall.op = "getNextAccount" /\ lastCall.ret # Undefined) =>
        LET M == lastCall.modelName
            r == lastCall.ret
        IN  /\ r \in ReadyNow
            /\ \A o \in ReadyNow :
                  /\ ClaimedScore(r, M) >= ClaimedScore(o, M)
                  /\ (ClaimedScore(r, M) = ClaimedScore(o, M) =>
                        IndexOf(accountsList, r) <= IndexOf(accountsList, o))
            /\ \A a, b \in ReadyNow :
                  LET sa == accountStatesMap[a]
                      sb == accountStatesMap[b]
                  IN  /\ (/\ sa.requestCount = sb.requestCount
                          /\ sa.lastUsed = sb.lastUsed
                          /\ EntryOf(a, M) # Undefined /\ EntryOf(b, M) # Undefined
                          /\ EntryOf(a, M) > EntryOf(b, M)) => r # b
                      /\ (/\ EntryOf(a, M) = EntryOf(b, M)
                          /\ sa.lastUsed = sb.lastUsed
                          /\ sa.requestCount < sb.requestCount) => r # b

C17_Witness ==
    /\ lastCall.op = "getNextAccount"
    /\ lastCall.modelName = "m1"
    /\ lastCall.ret = 2
    /\ ReadyNow = {1, 2}
    /\ accountStatesMap[1].requestCount = accountStatesMap[2].requestCount
    /\ accountStatesMap[1].lastUsed = accountStatesMap[2].lastUsed
    /\ accountStatesMap[1].lastUsed # Undefined
    /\ EntryOf(1, "m1") = 600
    /\ EntryOf(2, "m1") = 1000

NeverUsedReady == {id \in ReadyNow : accountStatesMap[id].lastUsed = Undefined}

NoneExhausted(M) ==
    \A id \in ReadyNow : EntryOf(id, M) = Undefined \/ EntryOf(id, M) > QUOTA_THRESHOLD

\* C18 as stated: among ready accounts none of which has an exhausted quota
\* entry for the requested model, whenever some ready account has never been
\* used, getNextAccount returns a never-used account.
C18_NeverUsedFirst ==
    (/\ lastCall.op = "getNextAccount"
     /\ lastCall.ret # Undefined
     /\ NoneExhausted(lastCall.modelName)
     /\ NeverUsedReady # {}) =>
        lastCall.ret \in NeverUsedReady

\* the quota fraction that enters the score, in 1/1000: 0 without an entry
FractionOf(id, M) == IF EntryOf(id, M) = Undefined THEN 0 ELSE EntryOf(id, M)

\* C18 amended: under the same conditions, getNextAccount returns a never-used
\* account provided some never-used ready account's quota fraction for the
\* model is at most 0.4 below that of every used ready account (no entry
\* counting as 0).
C18_NeverUsedFirstWithinQuotaGap ==
    (/\ lastCall.op = "getNextAccount"
     /\ lastCall.ret # Undefined
     /\ NoneExhausted(lastCall.modelName)
     /\ \E n \in NeverUsedReady :
            \A u \in ReadyNow \ NeverUsedReady :
                FractionOf(u, lastCall.modelName) - FractionOf(n, lastCall.modelName) <= 400) =>
        lastCall.ret \in NeverUsedReady

C18_Witness ==
    /\ lastCall.op = "getNextAccount"
    /\ lastCall.modelName = "m1"
    /\ lastCall.ret = 2
    /\ ReadyNow = {1, 2}
    /\ accountStatesMap[2].lastUsed = Undefined
    /\ accountStatesMap[1].lastUsed # Undefined
    /\ now - accountStatesMap[1].lastUsed >= 3600000
    /\ EntryOf(1, "m1") = 1000
    /\ EntryOf(2, "m1") = 600

\* C16: the first attempt of a dispatch selects its account with the request's
\* model name: given exactly two ready accounts identical in usage and recency,
\* one with an exhausted quota entry for the requested model and one with an
\* available entry, the request goes through the account with available quota.
C16_DispatchStep(d) ==
    LET rec == dispatch[d]
        new == dispatch'[d]
    IN  (rec.pc \in {"idle", "done"} /\ new.pc = "awaiting") =>
          \A a, b \in DOMAIN accountStatesMap :
              (/\ a # b
               /\ ReadyNow = {a, b}
               /\ accountStatesMap[a].requestCount = accountStatesMap[b].requestCount
               /\ accountStatesMap[a].lastUsed = accountStatesMap[b].lastUsed
               /\ EntryOf(a, new.model) # Undefined
               /\ EntryOf(a, new.model) <= QUOTA_THRESHOLD
               /\ EntryOf(b, new.model) # Undefined
               /\ EntryOf(b, new.model) > QUOTA_THRESHOLD) =>
                  new.account = b

C16_DispatchUsesModelQuota == [][\A d \in DOMAIN dispatch : C16_DispatchStep(d)]_vars


\* C14: token-refresh single-flight: at any time at most one OAuth refresh
\* request is in flight for a credential, whatever the interleaving of the
\* callers that use it.
C14_RefreshSingleFlight ==
    \A k \in DOMAIN credentialState : Cardinality(RefreshesInFlight(k)) <= 1

\* C15: project-discovery single-flight: at most one discovery is in flight
\* for a credential at a time, and the callers of getProjectId that have an
\* answer for the same credential have the same project id.
ProjectIdCallsDone(k) ==
    {c \in Callers : /\ callers[c].op = "getProjectId"
                     /\ callers[c].account = k
                     /\ callers[c].pc = "done"}

C15_DiscoverySingleFlight ==
    \A k \in DOMAIN credentialState :
        /\ Cardinality(DiscoveriesInFlight(k)) <= 1
        /\ \A c1, c2 \in ProjectIdCallsDone(k) :
               callers[c1].result = callers[c2].result

\* C19 as stated: a POST answered with 429 ends the call with a 429 error, with
\* no further request and the base-URL cursor where it was.
AnsweredWith(status) ==
    /\ request.pc \in {"posting", "retrying"}
    /\ Len(request'.events) = Len(request.events) + 1
    /\ request'.events[Len(request'.events)] = PostEvent(request.url, status)

C19_Step429 ==
    AnsweredWith(429) =>
        /\ request'.pc = "done"
        /\ currentBaseUrlIndex' = currentBaseUrlIndex
        /\ request'.result = 429

C19_RateLimitStopsTransport == [][C19_Step429]_vars

\* C19, amended: a POST answered with 429 ends the call with no further request
\* and the base-URL cursor where it was; the error raised is 429, except for the
\* retry that follows a 401 and a token refresh, whose 429 is raised as 401.
C19_Step429Amended ==
    AnsweredWith(429) =>
        /\ request'.pc = "done"
        /\ currentBaseUrlIndex' = currentBaseUrlIndex
        /\ request'.result = IF request.pc = "retrying" THEN 401 ELSE 429

C19_RateLimitStopsTransportExceptRetry == [][C19_Step429Amended]_vars

\* a unary call whose second base URL answered 429 after the first one failed,
\* and a streaming call answered 429
C19_Witness ==
    /\ request.pc = "done"
    /\ request.result = 429
    /\ request.events # <<>>
    /\ request.events[Len(request.events)].status = 429
    /\ \/ request.kind = "unary" /\ Len(request.events) >= 2
       \/ request.kind = "stream"

\* C20: a finished upstream request that was answered 401 made exactly one
\* token refresh after it, and, the refresh done, exactly one retry on the same
\* base URL; it ends with that retry's success or with a 401, and posts to no
\* other base URL.
First401(events) ==
    CHOOSE j \in 1..Len(events) :
        /\ events[j].type = "post" /\ events[j].status = 401
        /\ \A h \in 1..(j - 1) : ~(events[h].type = "post" /\ events[h].status = 401)

Answered401(r) ==
    \E j \in 1..Len(r.events) : r.events[j].type = "post" /\ r.events[j].status = 401

C20_RefreshAndRetryOnce ==
    (request.pc = "done" /\ Answered401(request)) =>
        LET ev == request.events
            j == First401(ev)
        IN  /\ Len(ev) > j
            /\ ev[j + 1].type = "refresh"
            /\ IF ev[j + 1].status = 200
               THEN /\ Len(ev) = j + 2
                    /\ ev[j + 2].type = "post"
                    /\ ev[j + 2].url = ev[j].url
                    /\ request.result = IF ev[j + 2].status = 200 THEN 200 ELSE 401
               ELSE /\ Len(ev) = j + 1
                    /\ request.result = 401


\* C21: a finished unary request whose POSTs all failed with a network error
\* or a response of 500 and above, one POST per loop turn over the base URLs,
\* ends with a BadGateway error (502).
AllUpstreamFailed(r) ==
    /\ r.kind = "unary"
    /\ Len(r.events) = baseUrlsLength
    /\ \A j \in 1..Len(r.events) :
           r.events[j].type = "post" /\ r.events[j].status >= 500

C21_AllFailedIsBadGateway ==
    (request.pc = "done" /\ AllUpstreamFailed(request)) => request.result = 502


\* C22: once the client has disconnected, no step of the handler reads a
\* further upstream chunk, writes to the client, or changes an account's state
\* (markSuccess, markCooldown).
C22_StepAfterDisconnect(d) ==
    (dispatch[d].pc # "idle" /\ dispatch[d].res.destroyed
        /\ dispatch'[d].pc # "start" /\ dispatch'[d].res.destroyed) =>
        /\ dispatch'[d].consumed = dispatch[d].consumed
        /\ dispatch'[d].res.written = dispatch[d].res.written
        /\ accountStatesMap' = accountStatesMap

C22_DisconnectCancels ==
    [][\A d \in DOMAIN dispatch : C22_StepAfterDisconnect(d)]_vars


\* C23: in an OpenAI streaming response that has ended normally, every chunk
\* written for a usage-bearing upstream chunk carries a finish_reason and a
\* usage block, and the sentinel [DONE] is written exactly once, as the last
\* record, whether or not the upstream sent [DONE] itself.
DoneRecords(w) == {i \in 1..Len(w) : w[i].type = "done"}

C23_DoneOnceAndLast ==
    oaStream.pc = "ended" =>
        LET w == oaStream.written
        IN  /\ DoneRecords(w) = {Len(w)}
            /\ \A i \in oaStream.usageRecords :
                   w[i].finish_reason # "" /\ w[i].usage

\* C24: at every point of an OpenAI stream, the delta.content of the chunks
\* written so far, concatenated, is the content the unary transform gives for
\* the parts read so far (null standing for the empty content), likewise for
\* reasoning_content, and the function.arguments of the tool_call deltas,
\* concatenated per index, are the unary tool_calls' argument strings.
RECURSIVE ConcatDelta(_, _)
ConcatDelta(w, field) ==
    IF w = <<>> THEN <<>>
    ELSE (IF w[1].type = "chunk" THEN w[1][field] ELSE <<>>)
         \o ConcatDelta(Tail(w), field)

RECURSIVE ConcatArguments(_, _)
ConcatArguments(toolCalls, index) ==
    IF toolCalls = <<>> THEN <<>>
    ELSE (IF toolCalls[1].index = index THEN toolCalls[1].arguments ELSE <<>>)
         \o ConcatArguments(Tail(toolCalls), index)

C24_StreamEqualsUnary ==
    LET unary == transformResponse(oaStream.parts)
        deltas == ConcatDelta(oaStream.written, "tool_calls")
    IN  /\ ConcatDelta(oaStream.written, "content") =
               (IF unary.content = Null THEN <<>> ELSE unary.content)
        /\ ConcatDelta(oaStream.written, "reasoning_content") = unary.reasoning_content
        /\ \A i \in 1..Len(deltas) : deltas[i].index \in 0..(Len(unary.tool_calls) - 1)
        /\ \A i \in 1..Len(unary.tool_calls) :
               ConcatArguments(deltas, i - 1) = unary.tool_calls[i]

\* two chunks read, with text, reasoning and tool calls of both chunks
C24_Witness ==
    /\ oaStream.pc = "ended"
    /\ oaStream.read = 2
    /\ Len(oaStream.parts) >= 3
    /\ Len(transformResponse(oaStream.parts).tool_calls) >= 2
    /\ transformResponse(oaStream.parts).content # Null
    /\ transformResponse(oaStream.parts).reasoning_content # <<>>
    /\ \E i \in 1..Len(oaStream.written) :
           oaStream.written[i].type = "chunk"
           /\ \E j \in 1..Len(oaStream.written[i].tool_calls) :
                  oaStream.written[i].tool_calls[j].index = 1

\* C25: the events written for an upstream chunk with a non-zero candidates
\* token count end with content_block_stop for every block started and not
\* yet stopped, in order, then message_delta with the final stop_reason, then
\* message_stop.
OpenBlocks(events) ==
    {i \in 0..Len(events) :
        /\ \E j \in 1..Len(events) :
               events[j].type = "content_block_start" /\ events[j].index = i
        /\ ~\E j \in 1..Len(events) :
               events[j].type = "content_block_stop" /\ events[j].index = i}

RECURSIVE StopsOf(_)
StopsOf(open) ==
    IF open = {} THEN <<>>
    ELSE LET i == CHOOSE x \in open : \A y \in open : x <= y
         IN  <<StreamEvent("content_block_stop", i)>> \o StopsOf(open \ {i})

\* the events from j + 1 on are the closing sequence of the events up to j
ClosesAt(events, j, reason) ==
    SubSeq(events, j + 1, Len(events)) =
        StopsOf(OpenBlocks(SubSeq(events, 1, j)))
        \o <<MessageDelta(reason), StreamEvent("message_stop", Undefined)>>

C25_UsageChunkCloses ==
    (anStream.pc = "open" /\ anStream.lastUsage) =>
        \E j \in (Len(anStream.events) - anStream.lastCount)..Len(anStream.events) :
            ClosesAt(anStream.events, j, determineFinalStopReason(anStream.acc))

\* C26: when the upstream ends before a usage-bearing chunk, the events written
\* at the end are content_block_stop for exactly the blocks still open, then
\* message_delta, then message_stop; when the stream was complete, none.
C26_EndCloses ==
    anStream.pc = "ended" =>
        IF anStream.completeBefore THEN anStream.lastCount = 0
        ELSE ClosesAt(anStream.events, Len(anStream.events) - anStream.lastCount,
                      determineFinalStopReason(anStream.acc))

\* C27: the input fed whole and the input fed in chunks, cut at any byte, yield
\* the same payloads.
C27_SplitInvariant ==
    (sse.pc = "reading" /\ sse.pos = Len(sse.input)) =>
        sse.payloads = parseChunk(<<>>, sse.input).dataLines

\* C28: with an empty pool, the call of a dispatch operation ends with HTTP 503,
\* no account selected, no upstream call, and the pool's state as it was.
C28_StartStep(d) ==
    (dispatch'[d].pc # "idle" /\ dispatch'[d] # dispatch[d]
        /\ ~hasAccounts(accountStatesMap)) =>
        /\ dispatch'[d].pc = "done"
        /\ dispatch'[d].outcome.http = 503
        /\ dispatch'[d].selections = 0
        /\ dispatch'[d].upstreamCalls = 0
        /\ ~dispatch'[d].res.headersSent
        /\ UNCHANGED <<accountStatesMap, accountsList, emailToIdMap, currentIndex,
                       quotaCache>>

C28_NoAccountsIs503 == [][\A d \in DOMAIN dispatch : C28_StartStep(d)]_vars

C28_Witness ==
    \E d \in DOMAIN dispatch :
        /\ dispatch[d].pc = "done"
        /\ dispatch[d].poolAtStart = 0
        /\ dispatch[d].outcome.http = 503
        /\ dispatch[d].kind = "stream"
        /\ ~hasAccounts(accountStatesMap)

\* C29: without a configured key every request is admitted; with one, a request
\* is admitted exactly when the key it presents (the Bearer token, or x-api-key
\* on /v1/messages) is the configured key, and is rejected with 401 otherwise.
PresentedKey(req) ==
    IF req.path = "/v1/messages" THEN req.xApiKey
    ELSE IF Len(req.authorization) >= 2 /\ req.authorization[1] = "Bearer"
    THEN req.authorization[2] ELSE ""

C29_GuardAdmits ==
    guard.checked =>
        IF guard.apiKey = NoApiKey THEN guard.status = 200
        ELSE /\ guard.status \in {200, 401}
             /\ guard.status = 200 <=> PresentedKey(guard.request) = guard.apiKey

\* C30: cleaning a cleaned schema changes nothing, and no key of
\* SCHEMA_KEYS_TO_REMOVE is a keyword at any depth of a cleaned schema.
RECURSIVE HasRemovedKey(_)
HasRemovedKey(schema) ==
    \/ schema.keys \cap SCHEMA_KEYS_TO_REMOVE # {}
    \/ \E i \in 1..Len(schema.properties) : HasRemovedKey(schema.properties[i].schema)
    \/ \E i \in 1..Len(schema.items) : HasRemovedKey(schema.items[i])

C30_CleanIdempotentAndComplete ==
    schemaIO.pc = "cleaned" =>
        /\ schemaIO.twice = schemaIO.once
        /\ ~HasRemovedKey(schemaIO.once)

\* C31: within one dispatch every retry uses a different account, whatever other
\* dispatches do meanwhile: no account the dispatch has already attempted is
\* selected by it again.
C31_RetriesUseDistinctAccounts ==
    \A d \in 1..MaxDispatch :
        dispatch[d].pc # "idle" =>
            \A i, j \in 1..Len(dispatch[d].tried) :
                i # j => dispatch[d].tried[i] # dispatch[d].tried[j]

\* C32: for every number n of base URLs and every starting cursor, a unary
\* request whose POSTs all fail with a network error or a 5xx response has
\* tried each of the n base URLs exactly once when it gives up, and the cursor
\* stays within 0..n-1.
UrlsTried(r) == [j \in 1..Len(r.events) |-> r.events[j].url]

C32_FailoverCoversAllUrls ==
    /\ currentBaseUrlIndex \in 0..(baseUrlsLength - 1)
    /\ (request.pc = "done" /\ AllUpstreamFailed(request)) =>
          /\ Range(UrlsTried(request)) = 0..(baseUrlsLength - 1)
          /\ \A i, j \in 1..Len(request.events) :
                i # j => request.events[i].url # request.events[j].url

\* C33: a cooldown is time-bounded.  A read of the ready accounts made after
\* the clock has passed an account's cooldownUntil returns that account as
\* ready; and, time and reads being fair, an account in cooldown is eventually
\* ready again unless markError hits it.
C33_ReadStep ==
    lastCall'.op = "getReadyAccounts" =>
        \A id \in DOMAIN accountStatesMap :
            (accountStatesMap[id].status = "cooldown"
                /\ accountStatesMap[id].cooldownUntil < now) =>
                    /\ accountStatesMap'[id].status = "ready"
                    /\ id \in Range(lastCall'.ret)

C33_CooldownIsTimeBounded ==
    /\ [][C33_ReadStep]_vars
    /\ \A id \in 1..2 :
          (accountStatesMap[id].status = "cooldown")
              ~> (accountStatesMap[id].status \in {"ready", "error"})

C33_Witness ==
    /\ lastCall.op = "getReadyAccounts"
    /\ \E id \in DOMAIN accountStatesMap :
          /\ accountStatesMap[id].status = "ready"
          /\ accountStatesMap[id].consecutiveErrors > 0
          /\ accountStatesMap[id].cooldownUntil = Undefined
          /\ id \in Range(lastCall.ret)

\* C34: markError(a) sets a's status to error and adds 1 to errorCount, leaving
\* consecutiveErrors, cooldownUntil and every other account alone; afterwards
\* neither the clock nor a read of the ready accounts makes a ready again,
\* and no selection returns an account whose status is error.
C34_Step ==
    /\ lastCall'.op = "markError" =>
          LET a == lastCall'.id
          IN  accountStatesMap' = [accountStatesMap EXCEPT ![a] =
                  [@ EXCEPT !.status = "error", !.errorCount = @ + 1]]
    /\ lastCall'.op \in {"none", "getReadyAccounts", "getNextAccount"} =>
          \A id \in DOMAIN accountStatesMap :
              accountStatesMap[id].status = "error" =>
                  accountStatesMap'[id] = accountStatesMap[id]
    /\ lastCall'.op = "getReadyAccounts" =>
          \A id \in Range(lastCall'.ret) : accountStatesMap[id].status # "error"
    /\ (lastCall'.op = "getNextAccount" /\ lastCall'.ret # Undefined) =>
          accountStatesMap[lastCall'.ret].status # "error"

C34_MarkErrorIsFinal == [][C34_Step]_vars

C34_Witness ==
    /\ lastCall.op = "getNextAccount"
    /\ lastCall.ret # Undefined
    /\ \E id \in DOMAIN accountStatesMap :
          /\ accountStatesMap[id].status = "error"
          /\ accountStatesMap[id].cooldownUntil # Undefined
          /\ accountStatesMap[id].cooldownUntil < now
          /\ accountStatesMap[id].consecutiveErrors = 1
          /\ accountStatesMap[id].errorCount = 2

\* C35: across one OpenAI stream the tool-call indices are stable per logical
\* tool call: the calls get the indices 0, 1, 2, ... in the order in which
\* their functionCall ids are first received, and a part that continues a call
\* already received (same id) is emitted under that call's index.
RECURSIVE EmittedCalls(_)
EmittedCalls(w) ==
    IF w = <<>> THEN <<>>
    ELSE (IF w[1].type = "chunk" THEN w[1].tool_calls ELSE <<>>)
         \o EmittedCalls(Tail(w))

FirstWith(calls, id) == CHOOSE k \in 1..Len(calls) :
    calls[k].id = id /\ \A h \in 1..(k - 1) : calls[h].id # id

\* the functionCall parts of one upstream chunk are distinct tool calls
DistinctWithinChunks(w) ==
    \A k \in 1..Len(w) : w[k].type = "chunk" =>
        \A i, j \in 1..Len(w[k].tool_calls) :
            i # j => w[k].tool_calls[i].id # w[k].tool_calls[j].id

C35_ToolIndicesStable ==
    LET calls == EmittedCalls(oaStream.written)
    IN  DistinctWithinChunks(oaStream.written) =>
            \A i \in 1..Len(calls) :
                calls[i].index =
                    Cardinality({calls[h].id :
                                    h \in 1..(FirstWith(calls, calls[i].id) - 1)})

\* C37: the finish_reason of the terminal chunk of an OpenAI stream is
\* tool_calls if a tool call was emitted, else length if some upstream chunk
\* carried MAX_TOKENS, else content_filter if some chunk carried SAFETY or
\* RECITATION, else stop, in whatever order the finish reasons arrived.
ChunkIndices(w) == {i \in 1..Len(w) : w[i].type = "chunk"}

LastChunk(w) == w[CHOOSE i \in ChunkIndices(w) : \A j \in ChunkIndices(w) : j <= i]

ExpectedFinishReason(st) ==
    IF EmittedCalls(st.written) # <<>> THEN "tool_calls"
    ELSE IF "MAX_TOKENS" \in st.finishReasons THEN "length"
    ELSE IF st.finishReasons \cap {"SAFETY", "RECITATION"} # {} THEN "content_filter"
    ELSE "stop"

C37_FinalFinishReason ==
    (ChunkIndices(oaStream.written) # {}
        /\ LastChunk(oaStream.written).finish_reason # "") =>
            LastChunk(oaStream.written).finish_reason = ExpectedFinishReason(oaStream)

\* C39: in an OpenAI stream that has ended normally exactly one chunk carries
\* a finish_reason, and it is the last JSON chunk: after the accumulator is
\* complete no further content or finish chunk is written.
FinishChunks(w) == {i \in ChunkIndices(w) : w[i].finish_reason # ""}

C39_OneFinishChunkAndLast ==
    oaStream.pc = "ended" =>
        /\ Cardinality(FinishChunks(oaStream.written)) = 1
        /\ LastChunk(oaStream.written).finish_reason # ""

\* C36: in an Anthropic stream message_start is emitted exactly once, as the
\* first event; a content_block_start for a text or thinking part is emitted
\* only when no block of that type is open, at the next unused index; and the
\* content_block_delta of the part carries the index of the open block of its
\* type.
EventsOf(events, type) == {j \in 1..Len(events) : events[j].type = type}

\* the block started at position h is open at position j
OpenBetween(events, h, j) ==
    /\ h < j
    /\ events[h].type = "content_block_start"
    /\ ~\E k \in (h + 1)..(j - 1) :
           events[k].type = "content_block_stop" /\ events[k].index = events[h].index

TextBlocks == {"text", "thinking"}

C36_StartOnceAndOpenBlocks ==
    LET ev == anStream.events
    IN  /\ ev # <<>> => EventsOf(ev, "message_start") = {1}
        /\ \A j \in EventsOf(ev, "content_block_start") :
              ev[j].block \in TextBlocks =>
                  /\ ~\E h \in 1..(j - 1) :
                         ev[h].block = ev[j].block /\ OpenBetween(ev, h, j)
                  /\ ev[j].index =
                         Cardinality({h \in EventsOf(ev, "content_block_start") : h < j})
        /\ \A j \in EventsOf(ev, "content_block_delta") :
              ev[j].block \in TextBlocks =>
                  \E h \in 1..(j - 1) :
                      /\ ev[h].block = ev[j].block
                      /\ ev[h].index = ev[j].index
                      /\ OpenBetween(ev, h, j)

\* C38: an Anthropic stream that has ended is well-bracketed: the blocks are
\* started with the indices 0, 1, 2, ... in order, every started block has
\* exactly one content_block_stop, and message_stop occurs exactly once, as
\* the last event.
C38_WellBracketed ==
    anStream.pc = "ended" =>
        LET ev == anStream.events
            starts == EventsOf(ev, "content_block_start")
        IN  /\ \A j \in starts :
                  /\ ev[j].index = Cardinality({h \in starts : h < j})
                  /\ Cardinality({k \in EventsOf(ev, "content_block_stop") :
                                     ev[k].index = ev[j].index}) = 1
            /\ EventsOf(ev, "message_stop") = {Len(ev)}

\* C40: after loading any configured list (repeated emails included) and any
\* sequence of addAccount calls, the id map, the list and the email index
\* agree: the list is account-1..account-n in order and holds exactly the
\* accounts of the id map, no two accounts share an email, and every email
\* maps to the one account that holds it.
C40_PoolStructure ==
    LET n == Cardinality(DOMAIN accountStatesMap)
    IN  /\ DOMAIN accountStatesMap = 1..n
        /\ accountsList = [i \in 1..n |-> i]
        /\ \A i, j \in 1..n :
              i # j => accountStatesMap[i].email # accountStatesMap[j].email
        /\ DOMAIN emailToIdMap = {accountStatesMap[i].email : i \in 1..n}
        /\ \A e \in DOMAIN emailToIdMap :
              /\ emailToIdMap[e] \in 1..n
              /\ accountStatesMap[emailToIdMap[e]].email = e

====
